---- MODULE Spec2Model ----
(***************************************************************************)
(* Gym lead qualifier: the conversation lifecycle driven by the polling    *)
(* command (poll_emails), the approval views, the cold-lead sweep and the  *)
(* outcome classifier.                                                     *)
(*                                                                         *)
(* The database is one record `db` of tables; a table is a sequence of     *)
(* rows and a row's id is its index.  The transcript of a conversation is  *)
(* db.messages[id], in creation order (Message.Meta.ordering).             *)
(* Python's None / SQL NULL is the string None.  A conversation's          *)
(* last_message_at is kept as its age in days, now - last_message_at       *)
(* (idle_days): setting last_message_at to timezone.now() sets the age to  *)
(* 0 and a day passing adds one to every age.                              *)
(***************************************************************************)
EXTENDS Integers, Sequences, FiniteSets, TLC

VARIABLES db, poll, last

vars == <<db, poll, last>>

None == "None"

(* ------------------------------ bounds --------------------------------- *)
MaxMessages == 2
MaxPending == 2

(* ------------------------- small input domains ------------------------- *)
Emails == {"ann@x"}
Subjects == {"New Prospect Notification"}
FirstNames == {"Ann"}
Phones == {"555"}
ReplyTexts == {"hello"}
EditTexts == {"", "edited"}

\* settings.GROK_API_KEY / settings.OPENAI_API_KEY: set or not
KeyConfigs == [grok : BOOLEAN, openai : BOOLEAN]

\* the SystemConfig row: the values the model runs with
ColdLeadThresholdDays == 1
MaxMessageExchanges == 1

\* the intent payload of a turn: absent, well-formed (with or without a
\* primary intent) or malformed
IntentPayloads ==
    {[present |-> FALSE, valid |-> FALSE, primary_intent |-> None],
     [present |-> TRUE, valid |-> FALSE, primary_intent |-> None],
     [present |-> TRUE, valid |-> TRUE, primary_intent |-> None],
     [present |-> TRUE, valid |-> TRUE, primary_intent |-> "weight_loss"]}

\* request.POST.get('outcome') of the mark-complete form
PostedOutcomes == {None, "agreed_to_free_class", "not_interested"}

(* ------------------------------- helpers ------------------------------- *)
Ids(table) == 1..Len(table)

Last(s) == s[Len(s)]

\* Python truthiness of a text value (None and "" are falsy)
Truthy(v) == v # None /\ v # ""

(* ----------------------------- leads/models ---------------------------- *)
\* Conversation.message_count
message_count(d, conversation_id) == Len(d.messages[conversation_id])

\* the original text taken whatever was edited
get_final_content_original(pending) == pending.llm_content

\* PendingResponse.get_final_content
get_final_content(pending) ==
    IF Truthy(pending.edited_content) THEN pending.edited_content
    ELSE pending.llm_content

(* ------------------------ services/prospect_service -------------------- *)
\* Result of a service call: the database it leaves, whether it raised, and
\* the id of the row it returns (0 when it raised).
Ret(d, raised, id) == [db |-> d, raised |-> raised, id |-> id]

create_or_get_prospect(d, email, first_name, phone) ==
    LET found == {i \in Ids(d.prospects) : d.prospects[i].email = email}
    IN  IF email = None \/ first_name = None
        THEN Ret(d, TRUE, 0)   \* NOT NULL column: IntegrityError
        ELSE IF found = {}
        THEN Ret([d EXCEPT !.prospects = Append(@,
                     [email |-> email, first_name |-> first_name, phone |-> phone])],
                 FALSE, Len(d.prospects) + 1)
        ELSE LET i == CHOOSE x \in found : TRUE
                 p == d.prospects[i]
             IN  IF p.first_name # first_name \/ p.phone # phone
                 THEN Ret([d EXCEPT !.prospects[i].first_name = first_name,
                                    !.prospects[i].phone = phone], FALSE, i)
                 ELSE Ret(d, FALSE, i)

\* objects.create in place of get_or_create: a row for every call
create_conversation_always(d, prospect, thread_subject) ==
    Ret([d EXCEPT !.conversations = Append(@,
             [prospect |-> prospect, thread_subject |-> thread_subject,
              status |-> "active", outcome |-> None, intent |-> None,
              idle_days |-> 0]),
                  !.messages = Append(@, <<>>)],
        FALSE, Len(d.conversations) + 1)

create_conversation(d, prospect, thread_subject) ==
    LET found == {i \in Ids(d.conversations) :
                     /\ d.conversations[i].prospect = prospect
                     /\ d.conversations[i].thread_subject = thread_subject}
    IN  IF found = {}
        THEN Ret([d EXCEPT !.conversations = Append(@,
                     [prospect |-> prospect, thread_subject |-> thread_subject,
                      status |-> "active", outcome |-> None, intent |-> None,
                      idle_days |-> 0]),
                           !.messages = Append(@, <<>>)],
                 FALSE, Len(d.conversations) + 1)
        ELSE LET i == CHOOSE x \in found : TRUE
             IN  IF d.conversations[i].status \in {"cold", "complete"}
                 THEN Ret([d EXCEPT !.conversations[i].status = "active",
                                    !.conversations[i].outcome = None,
                                    !.conversations[i].idle_days = 0],
                          FALSE, i)
                 ELSE Ret(d, FALSE, i)

\* a log with the new message put before the older ones
log_message_newest_first(d, conversation, role, content) ==
    [d EXCEPT !.messages[conversation] = <<[role |-> role, content |-> content]>> \o @,
              !.conversations[conversation].idle_days = 0]

\* Message.objects.create: the new row has the latest created_at, the order
\* of the log
log_message(d, conversation, role, content) ==
    [d EXCEPT !.messages[conversation] = Append(@, [role |-> role, content |-> content]),
              !.conversations[conversation].idle_days = 0]

\* intent_data: [present, valid, primary_intent]; CustomerIntent.parse_obj
\* raises on a missing (None) or malformed payload
update_conversation_intent(d, conversation_id, intent_data) ==
    IF ~intent_data.present \/ ~intent_data.valid
    THEN Ret(d, TRUE, 0)
    ELSE IF conversation_id \notin Ids(d.conversations)
    THEN Ret(d, TRUE, 0)
    ELSE Ret([d EXCEPT !.conversations[conversation_id].intent =
                            intent_data.primary_intent],
             FALSE, conversation_id)

\* the two fields assigned whatever was passed
update_conversation_status_assigning(d, conversation_id, status, outcome) ==
    IF conversation_id \notin Ids(d.conversations)
    THEN Ret(d, TRUE, 0)
    ELSE Ret([d EXCEPT !.conversations[conversation_id].status = status,
                       !.conversations[conversation_id].outcome = outcome],
             FALSE, conversation_id)

\* "if status:" and "if outcome:" before the assignments
update_conversation_status(d, conversation_id, status, outcome) ==
    IF conversation_id \notin Ids(d.conversations)
    THEN Ret(d, TRUE, 0)
    ELSE LET c1 == d.conversations[conversation_id]
             c2 == IF Truthy(status) THEN [c1 EXCEPT !.status = status] ELSE c1
             c3 == IF Truthy(outcome) THEN [c2 EXCEPT !.outcome = outcome] ELSE c2
         IN  Ret([d EXCEPT !.conversations[conversation_id] = c3],
                 FALSE, conversation_id)

\* actioned_at: None (NULL) or "now", the time of the decision
create_pending_response(d, conversation, llm_content) ==
    [d EXCEPT !.pending = Append(@,
        [conversation |-> conversation, llm_content |-> llm_content,
         status |-> "pending", edited_content |-> None, actioned_at |-> None])]

\* approve_response storing the edit but leaving the status as it was
approve_response_keeps_status(d, pending_id, edited_content) ==
    IF pending_id \notin Ids(d.pending)
    THEN Ret(d, TRUE, 0)
    ELSE Ret([d EXCEPT !.pending[pending_id].edited_content =
                          IF Truthy(edited_content) THEN edited_content ELSE @],
             FALSE, pending_id)

\* returns (success, message): raised is "not success"
approve_response(d, pending_id, edited_content) ==
    IF pending_id \notin Ids(d.pending)
    THEN Ret(d, TRUE, 0)
    ELSE LET p1 == d.pending[pending_id]
             p2 == IF Truthy(edited_content)
                   THEN [p1 EXCEPT !.edited_content = edited_content,
                                   !.status = "edited"]
                   ELSE [p1 EXCEPT !.status = "approved"]
         IN  Ret([d EXCEPT !.pending[pending_id] = [p2 EXCEPT !.actioned_at = "now"]],
                 FALSE, pending_id)

\* a rejection that also closes the conversation of the draft
reject_response_and_close(d, pending_id) ==
    IF pending_id \notin Ids(d.pending)
    THEN Ret(d, TRUE, 0)
    ELSE Ret([d EXCEPT !.pending[pending_id].status = "rejected",
                       !.pending[pending_id].actioned_at = "now",
                       !.conversations[d.pending[pending_id].conversation].status =
                           "complete"],
             FALSE, pending_id)

reject_response(d, pending_id) ==
    IF pending_id \notin Ids(d.pending)
    THEN Ret(d, TRUE, 0)
    ELSE Ret([d EXCEPT !.pending[pending_id].status = "rejected",
                       !.pending[pending_id].actioned_at = "now"],
             FALSE, pending_id)

\* 0 stands for "no conversation" (the function's None)
get_conversation_by_thread(d, prospect_email, thread_subject) ==
    LET ps == {i \in Ids(d.prospects) : d.prospects[i].email = prospect_email}
        cs == {c \in Ids(d.conversations) :
                  /\ d.conversations[c].prospect \in ps
                  /\ d.conversations[c].thread_subject = thread_subject}
    IN  IF cs = {} THEN 0 ELSE CHOOSE c \in cs : TRUE

(* --------------------------- services/llm_service ---------------------- *)
\* One provider call's result, as the classifier sees it: the call raised
\* (ok = FALSE) or returned a text.  A text is its code fence ("none",
\* "json" for ```json, "plain" for ```), the kind of what is inside ("dict":
\* a JSON object, "list": other valid JSON, "text": not JSON) and, for an
\* object, the values under "should_end" and "outcome" ("absent": no key).
Raised == [ok |-> FALSE, fence |-> "none", kind |-> "text",
           should_end |-> "absent", outcome |-> "absent"]

AssessReplies ==
    {Raised}
    \cup {[ok |-> TRUE, fence |-> "none", kind |-> "dict", should_end |-> s, outcome |-> o] :
            s \in {"true", "false", "absent"},
            o \in {"agreed_to_free_class", "not_interested", "continue",
                   "follow_up_needed", "absent"}}
    \cup {[ok |-> TRUE, fence |-> "none", kind |-> k, should_end |-> "absent",
           outcome |-> "absent"] : k \in {"list", "text"}}
    \cup {[ok |-> TRUE, fence |-> f, kind |-> "dict", should_end |-> "true",
           outcome |-> "agreed_to_free_class"] : f \in {"json", "plain"}}

\* _call_llm: env is the pair of results the first and the second provider
\* call would give.  Returns whether it raised, the text, the provider used
\* and the providers called, in order.
CallResult(raised, text, provider, calls) ==
    [raised |-> raised, text |-> text, provider |-> provider, calls |-> calls]

\* the call made without looking whether there is a client
call_llm_without_client(provider, keys, env) ==
    LET actual_provider == IF provider = "grok" /\ keys.grok THEN "grok" ELSE "openai"
    IN  IF env[1].ok
        THEN CallResult(FALSE, env[1], actual_provider, <<actual_provider>>)
        ELSE IF provider = "grok" /\ keys.openai
        THEN CallResult(~env[2].ok, env[2], "openai", <<actual_provider, "openai">>)
        ELSE CallResult(TRUE, env[1], actual_provider, <<actual_provider>>)

\* the first provider's name returned for the fallback's text
call_llm_naming_first(provider, keys, env) ==
    LET actual_provider == IF provider = "grok" /\ keys.grok THEN "grok" ELSE "openai"
        client == IF actual_provider = "grok" THEN TRUE ELSE keys.openai
    IN  IF ~client
        THEN CallResult(TRUE, env[1], actual_provider, <<>>)
        ELSE IF env[1].ok
        THEN CallResult(FALSE, env[1], actual_provider, <<actual_provider>>)
        ELSE IF provider = "grok" /\ keys.openai
        THEN CallResult(~env[2].ok, env[2], actual_provider, <<actual_provider, "openai">>)
        ELSE CallResult(TRUE, env[1], actual_provider, <<actual_provider>>)

call_llm(provider, keys, env) ==
    LET actual_provider == IF provider = "grok" /\ keys.grok THEN "grok" ELSE "openai"
        client == IF actual_provider = "grok" THEN TRUE ELSE keys.openai
    IN  IF ~client
        THEN CallResult(TRUE, env[1], actual_provider, <<>>)
        ELSE IF env[1].ok
        THEN CallResult(FALSE, env[1], actual_provider, <<actual_provider>>)
        ELSE IF provider = "grok" /\ keys.openai
        THEN CallResult(~env[2].ok, env[2], "openai", <<actual_provider, "openai">>)
        ELSE CallResult(TRUE, env[1], actual_provider, <<actual_provider>>)

\* the ```json / ``` stripping before json.loads
strip_fence(text) ==
    IF text.fence = "json" THEN [text EXCEPT !.fence = "none"]
    ELSE IF text.fence = "plain" THEN [text EXCEPT !.fence = "none"]
    ELSE text

\* json.loads followed by the two .get calls: raises unless the text is a
\* bare JSON object
json_loads_raises(text) == text.fence # "none" \/ text.kind # "dict"

\* What a call of detect_conversation_outcome gives its caller: the pair
\* returned, or an exception (raised); calls: the providers it called.
Assessment(should_end, outcome, raised) ==
    [should_end |-> should_end, outcome |-> outcome, raised |-> raised,
     calls |-> <<>>]

\* the handler letting the exception out instead
on_exception_reraised == Assessment(FALSE, None, TRUE)

\* "except Exception as e: ... return False, None"
on_exception == Assessment(FALSE, None, FALSE)

\* the model's outcome string handed on as it came
map_outcome_unmapped(outcome_str) == outcome_str

\* "Map to outcome value"
map_outcome(outcome_str) ==
    IF outcome_str = "agreed_to_free_class" THEN "agreed_to_free_class"
    ELSE IF outcome_str = "not_interested" THEN "not_interested"
    ELSE None

\* the assessment sent to the primary provider of the default configuration
assessment_provider_grok == "grok"

\* "provider='openai',  # Use OpenAI for assessment (more reliable)"
assessment_provider == "openai"

\* detect_conversation_outcome; the whole body is inside the try
detect_conversation_outcome(d, conversation_id, keys, env) ==
    IF conversation_id \notin Ids(d.conversations)
    THEN on_exception
    ELSE LET r == call_llm(assessment_provider, keys, env)
             response_text == strip_fence(r.text)
         IN  IF r.raised \/ json_loads_raises(response_text)
             THEN [on_exception EXCEPT !.calls = r.calls]
             ELSE LET should_end == (response_text.should_end = "true")
                      outcome_str == IF response_text.outcome = "absent" THEN "continue"
                                     ELSE response_text.outcome
                  IN  [Assessment(should_end, map_outcome(outcome_str), FALSE)
                          EXCEPT !.calls = r.calls]

\* the template looked up by the outcome as it came
closing_prompt_as_given(outcome) == outcome

\* CLOSING_MESSAGE_PROMPTS.get(outcome, CLOSING_MESSAGE_PROMPTS['reached_message_limit'])
closing_prompt(outcome) ==
    IF outcome \in {"agreed_to_free_class", "not_interested", "reached_message_limit"}
    THEN outcome
    ELSE "reached_message_limit"

\* The text a provider returns for a generation request; the stub provider
\* answers a closing request with "closing" and a turn request with "turn".
GenEnv(g, text) == <<[ok |-> g[1], text |-> text], [ok |-> g[2], text |-> text]>>

\* generate_closing_message: g is the pair of booleans "the first / second
\* provider call succeeds"; prompt is the template put first in the request
\* and first_name the name in its last message ("Generate the closing
\* message for {conversation.prospect.first_name}.")
generate_closing_message(d, conversation_id, outcome, keys, g) ==
    IF conversation_id \notin Ids(d.conversations)
    THEN [raised |-> TRUE, text |-> None, provider |-> None, calls |-> <<>>,
          prompt |-> None, first_name |-> None]
    ELSE LET r == call_llm(d.config.llm_provider_primary, keys, GenEnv(g, "closing"))
             conversation == d.conversations[conversation_id]
         IN  [raised |-> r.raised, text |-> r.text.text, provider |-> r.provider,
              calls |-> r.calls, prompt |-> closing_prompt(outcome),
              first_name |-> d.prospects[conversation.prospect].first_name]

\* the context without the drafts logged as llm_generated
build_conversation_context_without_generated(d, conversation) ==
    LET Kept(msg) == msg.role \in {"prospect", "sent"}
        history == SelectSeq(d.messages[conversation], Kept)
    IN  <<[role |-> "system", content |-> "SALES_SYSTEM_PROMPT"]>>
        \o [i \in 1..Len(history) |->
               [role |-> IF history[i].role = "prospect" THEN "user" ELSE "assistant",
                content |-> history[i].content]]

\* build_conversation_context: the system prompt, then the messages in the
\* order of the log; a message of another role than the three is passed over
build_conversation_context(d, conversation) ==
    LET Kept(msg) == msg.role \in {"prospect", "llm_generated", "sent"}
        history == SelectSeq(d.messages[conversation], Kept)
    IN  <<[role |-> "system", content |-> "SALES_SYSTEM_PROMPT"]>>
        \o [i \in 1..Len(history) |->
               [role |-> IF history[i].role = "prospect" THEN "user" ELSE "assistant",
                content |-> history[i].content]]

generate_response(d, conversation_id, keys, g) ==
    IF conversation_id \notin Ids(d.conversations)
    THEN [raised |-> TRUE, text |-> None, provider |-> None, calls |-> <<>>]
    ELSE LET r == call_llm(d.config.llm_provider_primary, keys, GenEnv(g, "turn"))
         IN  [raised |-> r.raised, text |-> r.text.text, provider |-> r.provider,
              calls |-> r.calls]

\* schemas.salesBotTurn: the turn the polling command reads .response and
\* .intent_data from
salesBotTurn(response, intent_data) ==
    [response |-> response, intent_data |-> intent_data]

(* ---------------------- management/commands/poll_emails ---------------- *)
STANDARD_OPENING_TEMPLATE(first_name) == "opening"

\* What one loop body leaves: the database as the body left it (at the
\* raise, when it raised), and what the body did.
Body(d, raised, conv, path, assessment, is_hot, notify) ==
    [db |-> d, raised |-> raised, conv |-> conv, path |-> path,
     should_end |-> assessment.should_end, outcome |-> assessment.outcome,
     is_hot |-> is_hot, notify |-> notify]

\* body of "for prospect_data in new_prospects"
handle_prospect(d, prospect_data) ==
    LET p == create_or_get_prospect(d, prospect_data.email, prospect_data.first_name,
                                    prospect_data.phone)
    IN  IF p.raised
        THEN Body(p.db, TRUE, 0, "prospect", on_exception, FALSE, FALSE)
        ELSE LET c == create_conversation(p.db, p.id, prospect_data.thread_subject)
                 response_text ==
                     STANDARD_OPENING_TEMPLATE(c.db.prospects[p.id].first_name)
             IN  Body(create_pending_response(c.db, c.id, response_text),
                      FALSE, c.id, "prospect", on_exception, FALSE, FALSE)

\* the closing branch shared by the outcome path and the limit path; the
\* outcome path scores the lead first ("lead_score =
\* calculate_lead_score(conversation)"), the limit path does not
closing_branch(d1, conversation, outcome, path, assessment, keys, x) ==
    LET lead_score == [is_hot |-> path = "outcome" /\ x.is_hot]
        cl == generate_closing_message(d1, conversation, outcome, keys, x.gen)
    IN  IF cl.raised
        THEN Body(d1, TRUE, conversation, path, assessment, lead_score.is_hot, FALSE)
        ELSE LET d2 == create_pending_response(d1, conversation, cl.text)
                 u == update_conversation_status(d2, conversation, "active", outcome)
             IN  Body(u.db, u.raised, conversation, path, assessment,
                      lead_score.is_hot, lead_score.is_hot)

\* the limit never looked at
limit_reached_never(d, conversation) == FALSE

\* the drafts of the conversation counted with its messages
limit_reached_with_drafts(d, conversation) ==
    message_count(d, conversation)
    + Cardinality({p \in Ids(d.pending) : d.pending[p].conversation = conversation})
        >= d.config.max_message_exchanges * 2

\* the comparison taken strictly
limit_reached_late(d, conversation) ==
    message_count(d, conversation) > d.config.max_message_exchanges * 2

\* "conversation.message_count() >= config.max_message_exchanges * 2"
limit_reached(d, conversation) ==
    message_count(d, conversation) >= d.config.max_message_exchanges * 2

\* body of "for reply_data in replies"; x holds what the collaborators
\* answer: the classifier's provider call (assess), whether each generation
\* call succeeds (gen), the turn's intent payload (intent_data), and whether
\* calculate_lead_score finds the lead hot (is_hot)
handle_reply(d, reply_data, keys, x) ==
    LET conversation == get_conversation_by_thread(d, reply_data.prospect_email,
                                                   reply_data.thread_subject)
    IN  IF conversation = 0
        THEN Body(d, FALSE, 0, "not_found", on_exception, FALSE, FALSE)
        ELSE
        LET d1 == log_message(d, conversation, "prospect", reply_data.reply_content)
            a == detect_conversation_outcome(d1, conversation, keys, <<x.assess, x.assess>>)
        IN  IF a.raised
            THEN Body(d1, TRUE, conversation, "classify", a, FALSE, FALSE)
            ELSE IF a.should_end /\ Truthy(a.outcome)
            THEN closing_branch(d1, conversation, a.outcome, "outcome", a, keys, x)
            ELSE IF limit_reached(d1, conversation)
            THEN closing_branch(d1, conversation, "reached_message_limit", "limit",
                                a, keys, x)
            ELSE LET g == generate_response(d1, conversation, keys, x.gen)
                     response_text == salesBotTurn(g.text, x.intent_data)
                 IN  IF g.raised
                     THEN Body(d1, TRUE, conversation, "turn", a, FALSE, FALSE)
                     ELSE LET d2 == create_pending_response(d1, conversation,
                                                            response_text.response)
                              ui == update_conversation_intent(d2, conversation,
                                                               response_text.intent_data)
                              lead_score == [is_hot |-> ~ui.raised /\ x.is_hot]
                          IN  Body(ui.db, ui.raised, conversation, "turn", a,
                                   lead_score.is_hot, FALSE)

\* the body run without the transaction
atomic_autocommit(old, body) == body.db

\* "with transaction.atomic()": a body that raises leaves the database as
\* it was before the body
atomic(old, body) == IF body.raised THEN old ELSE body.db

\* the try around the whole loop: a body that raises ends the loop
next_item_abort(p, raised) == [p EXCEPT !.left = IF raised THEN 0 ELSE @ - 1]

\* "try ... except Exception" inside the for loop: the loop goes on to the
\* next item whether the body raised or not
next_item(p, raised) == [p EXCEPT !.left = @ - 1]

(* ------------------------ services/cold_lead_service ------------------- *)
\* the sweep without the look at the last message
cold_candidates_any_role(d) ==
    IF ~d.config.cold_lead_notifications_enabled
    THEN {}
    ELSE {c \in Ids(d.conversations) :
            /\ d.conversations[c].status = "active"
            /\ d.conversations[c].idle_days > d.config.cold_lead_threshold_days}

\* the sweep filtering on the age alone, whatever the status
cold_candidates_any_status(d) ==
    IF ~d.config.cold_lead_notifications_enabled
    THEN {}
    ELSE {c \in Ids(d.conversations) :
            /\ d.conversations[c].idle_days > d.config.cold_lead_threshold_days
            /\ d.messages[c] # <<>>
            /\ Last(d.messages[c]).role = "sent"}

\* the conversations the sweep marks: active, last_message_at before the
\* cutoff (now - threshold days), and the last message of the transcript
\* has role 'sent'
cold_candidates(d) ==
    IF ~d.config.cold_lead_notifications_enabled
    THEN {}
    ELSE {c \in Ids(d.conversations) :
            /\ d.conversations[c].status = "active"
            /\ d.conversations[c].idle_days > d.config.cold_lead_threshold_days
            /\ d.messages[c] # <<>>
            /\ Last(d.messages[c]).role = "sent"}

\* check_cold_leads: the database after the sweep and the set returned
check_cold_leads(d) ==
    LET cold_conversations == cold_candidates(d)
    IN  [db |-> [d EXCEPT !.conversations =
                    [c \in Ids(d.conversations) |->
                        IF c \in cold_conversations
                        THEN [d.conversations[c] EXCEPT !.status = "cold"]
                        ELSE d.conversations[c]]],
         cold_conversations |-> cold_conversations]

(* ----------------------- services/lead_scoring_service ----------------- *)
\* Points are hundredths.  A scored conversation has the second it was
\* created at, and each of its messages the second it was created at and,
\* of its text, what the scoring reads: whether it is 100 characters or
\* longer (long), the buying keywords that occur in it (keywords) and the
\* INTENT_DETECTION block in it (intent: whether the marker is there with
\* braces after it, whether the JSON in the braces parses, and its
\* detected_intent and confidence_level).
NoIntent == [found |-> FALSE, valid |-> FALSE, detected_intent |-> None,
             confidence_level |-> 0]

Reversed(s) == [i \in 1..Len(s) |-> s[Len(s) + 1 - i]]

\* order_by('-created_at')[:n]
Newest(s, n) == SubSeq(Reversed(s), 1, IF Len(s) < n THEN Len(s) ELSE n)

WithRoles(s, roles) ==
    LET Test(m) == m.role \in roles
    IN  SelectSeq(s, Test)

Range(s) == {s[i] : i \in 1..Len(s)}

\* the newest of the last five LLM messages that has the marker decides:
\* its JSON, or None when json.loads raises; with no marker at all, the
\* intent inferred from the outcome
extract_intent_from_conversation(d, conversation) ==
    LET llm_messages == Newest(WithRoles(d.messages[conversation],
                                         {"llm_generated", "sent"}), 5)
        marked == {i \in 1..Len(llm_messages) : llm_messages[i].content.intent.found}
    IN  IF marked # {}
        THEN LET first == CHOOSE i \in marked : \A j \in marked : i <= j
                 intent_data == llm_messages[first].content.intent
             IN  IF intent_data.valid THEN intent_data ELSE NoIntent
        ELSE IF d.conversations[conversation].outcome = "agreed_to_free_class"
        THEN [found |-> TRUE, valid |-> TRUE, detected_intent |-> "wants_free_class",
              confidence_level |-> 90]
        ELSE NoIntent

\* buying_keywords, in the order of the dict
SignalTypes == <<"schedule", "price", "commitment", "urgency", "comparison">>

SignalFactor(signal_type) ==
    CASE signal_type = "schedule" -> "Asking about scheduling"
      [] signal_type = "price" -> "Price conscious (address value)"
      [] signal_type = "commitment" -> "Shows commitment"
      [] signal_type = "urgency" -> "Urgent timeline"
      [] signal_type = "comparison" -> "Comparing options"

buying_keywords ==
    [schedule |-> {"when", "what time", "schedule", "book", "sign up", "available"},
     price |-> {"cost", "price", "how much", "fee", "payment", "afford"},
     commitment |-> {"ready", "start", "begin", "join", "lets do", "let's do",
                     "sounds good"},
     urgency |-> {"today", "tomorrow", "this week", "soon", "asap", "right away"},
     comparison |-> {"better than", "compared to", "vs", "other gyms", "why you"}]

\* one message of the loop, appending a signal type at each of its keywords
\* found, detected before or not
detected_at_each_hit(message, detected_keywords) ==
    LET Hits(t) == Cardinality(buying_keywords[t] \cap message.content.keywords)
        Each(t) == [i \in 1..Hits(t) |-> t]
    IN  Each("schedule") \o Each("price") \o Each("commitment")
        \o Each("urgency") \o Each("comparison")

\* one message of the loop: the signal types with a keyword in the message
\* that were not detected before, in the order of the dict; the loop over a
\* type's keywords breaks at the first one found
detected_in(message, detected_keywords) ==
    LET Test(t) == /\ buying_keywords[t] \cap message.content.keywords # {}
                   /\ t \notin Range(detected_keywords)
    IN  SelectSeq(SignalTypes, Test)

\* the loop over recent_messages from message i on: the signal types in
\* the order they were detected
RECURSIVE scan_messages(_, _, _)
scan_messages(recent_messages, i, detected_keywords) ==
    IF i > Len(recent_messages) THEN detected_keywords
    ELSE scan_messages(recent_messages, i + 1,
                       detected_keywords
                       \o detected_in(recent_messages[i], detected_keywords))

detect_buying_signals(d, conversation) ==
    LET recent_messages == Newest(WithRoles(d.messages[conversation], {"prospect"}), 3)
        detected_keywords == scan_messages(recent_messages, 1, <<>>)
    IN  [found |-> detected_keywords # <<>>,
         factors |-> [i \in 1..Len(detected_keywords) |->
                         [text |-> SignalFactor(detected_keywords[i]), arg |-> None]],
         keywords |-> detected_keywords]

\* a factor: its text and what the f-string puts into it
Factor(text, arg) == [text |-> text, arg |-> arg]

\* what one numbered part of the function does: "score += points;
\* factors.append / extend; recommendations.append"
Add(points, factors, recommendations) ==
    [points |-> points, factors |-> factors, recommendations |-> recommendations]

Nothing == Add(0, <<>>, <<>>)

\* two parts, one after the other
Then(a, b) ==
    [points |-> a.points + b.points, factors |-> a.factors \o b.factors,
     recommendations |-> a.recommendations \o b.recommendations]

high_value_intents == {"weight_loss", "stress_relief_mental_health",
                       "learn_boxing_technique"}

reply_hour(created_at) == (created_at \div 3600) % 24

\* the sum returned as it is
cap_none(score) == score

\* "min(score, 1.0)"
cap(score) == IF score < 100 THEN score ELSE 100

\* "if final_score >= 0.8": the score from which a lead is very hot
very_hot_threshold == 80

\* "is_hot = final_score >= 0.7"
hot_threshold == 70

interpretation(final_score) ==
    IF final_score >= very_hot_threshold THEN "VERY HOT"
    ELSE IF final_score >= 70 THEN "HOT"
    ELSE IF final_score >= 60 THEN "WARM"
    ELSE IF final_score >= 40 THEN "LUKEWARM"
    ELSE "COLD"

\* the response time left out of the score
response_time_ignored(has_reply, time_to_respond) == Nothing

\* "2. Response Time": the part of calculate_lead_score that scores the
\* seconds from the conversation's creation to the first prospect message
response_time(has_reply, time_to_respond) ==
    IF ~has_reply THEN Nothing
    ELSE IF time_to_respond < 300
    THEN Add(20, <<Factor("Very fast response (<5 min)", None)>>,
             <<"Call immediately - high engagement">>)
    ELSE IF time_to_respond < 900
    THEN Add(15, <<Factor("Fast response (<15 min)", None)>>,
             <<"Priority follow-up">>)
    ELSE IF time_to_respond < 3600
    THEN Add(10, <<Factor("Quick response (<1 hr)", None)>>, <<>>)
    ELSE IF time_to_respond < 86400
    THEN Add(5, <<Factor("Same-day response", None)>>, <<>>)
    ELSE Nothing

\* the conversation saved with the intent found
saved_with_intent(d, conversation, intent_data) ==
    [d EXCEPT !.conversations[conversation].intent = intent_data.detected_intent]

\* calculate_lead_score saves nothing
saved(d, conversation, intent_data) == d

\* now is the clock at the call, which the code does not read; db is the
\* database the call leaves
calculate_lead_score(d, conversation, now) ==
    LET conv == d.conversations[conversation]
        \* "score = 0.4"
        base == Add(40, <<>>, <<>>)
        \* 1. intent detection
        intent_data == extract_intent_from_conversation(d, conversation)
        confidence == intent_data.confidence_level
        detected_intent == intent_data.detected_intent
        intent == IF ~intent_data.found THEN Nothing
                  ELSE IF confidence > 80
                  THEN Then(Add(25, <<Factor("Clear intent", detected_intent)>>, <<>>),
                            IF detected_intent \in high_value_intents
                            THEN Add(10, <<Factor("High-value goal", None)>>,
                                     <<"Premium package opportunity">>)
                            ELSE Nothing)
                  ELSE IF confidence > 60
                  THEN Add(15, <<Factor("Moderate intent", detected_intent)>>, <<>>)
                  ELSE IF confidence > 40
                  THEN Add(5, <<Factor("Unclear intent", None)>>, <<>>)
                  ELSE Nothing
        \* 2. response time
        prospect_replies == WithRoles(d.messages[conversation], {"prospect"})
        has_reply == prospect_replies # <<>>
        time_to_respond == IF has_reply
                           THEN prospect_replies[1].created_at - conv.created_at
                           ELSE 0
        \* 3. contact information
        contact == IF Truthy(d.prospects[conv.prospect].phone)
                   THEN Add(10, <<Factor("Phone provided", None)>>,
                            <<"SMS follow-up available">>)
                   ELSE Nothing
        \* 4. outcome
        outcome == IF conv.outcome = "agreed_to_free_class"
                   THEN Add(15, <<Factor("Agreed to free class!", None)>>,
                            <<"Schedule ASAP - ready to convert">>)
                   ELSE IF conv.outcome = "not_interested"
                   THEN Add(-20, <<Factor("Not interested", None)>>,
                            <<"Add to nurture campaign">>)
                   ELSE Nothing
        \* 5. engagement
        prospect_messages == Len(prospect_replies)
        engagement ==
            IF prospect_messages >= 3
            THEN Add(10, <<Factor("High engagement", ToString(prospect_messages))>>, <<>>)
            ELSE IF prospect_messages >= 2
            THEN Add(5, <<Factor("Good engagement", ToString(prospect_messages))>>, <<>>)
            ELSE Nothing
        long_messages == Cardinality({i \in 1..Len(prospect_replies) :
                                         prospect_replies[i].content.long})
        detailed == IF long_messages > 0
                    THEN Add(5, <<Factor("Detailed responses", None)>>, <<>>)
                    ELSE Nothing
        \* 6. buying signals
        buying_signals == detect_buying_signals(d, conversation)
        signals == IF buying_signals.found
                   THEN Add(10, buying_signals.factors,
                            IF "schedule" \in Range(buying_signals.keywords)
                            THEN <<"Ready to schedule - mention available times">>
                            ELSE <<>>)
                   ELSE Nothing
        \* 7. time of day
        time_of_day ==
            IF has_reply /\ reply_hour(prospect_replies[1].created_at) >= 9
                         /\ reply_hour(prospect_replies[1].created_at) <= 17
            THEN Add(5, <<Factor("Business hours response", None)>>, <<>>)
            ELSE Nothing
        total == Then(base, Then(intent, Then(response_time(has_reply, time_to_respond),
                 Then(contact,
                 Then(outcome, Then(engagement, Then(detailed, Then(signals,
                 time_of_day))))))))
        final_score == cap(total.points)
    IN  [db |-> saved(d, conversation, intent_data),
         score |-> final_score,
         factors |-> total.factors,
         is_hot |-> final_score >= hot_threshold,
         intent |-> intent_data,
         recommendations |-> total.recommendations,
         signal_points |-> signals.points,
         interpretation |-> interpretation(final_score),
         reason |-> SubSeq(total.factors, 1,
                           IF Len(total.factors) < 3 THEN Len(total.factors) ELSE 3)]

(* ------------------------------ views/actions -------------------------- *)
\* approve_response / edit_response views after the service call succeeded:
\* send the mail and, when it was sent, log it as a 'sent' message
\* the views logging the message whether it was sent or not
send_and_log_unsent_too(d, pending_id, message_content, sent) ==
    log_message(d, d.pending[pending_id].conversation, "sent", message_content)

send_and_log(d, pending_id, message_content, sent) ==
    IF sent
    THEN log_message(d, d.pending[pending_id].conversation, "sent", message_content)
    ELSE d

(* -------------------------------- state -------------------------------- *)
\* What the collaborators answer while one reply is handled: the keys in
\* settings, the classifier's provider call, whether the first / second
\* generation call succeeds, the turn's intent payload, and whether
\* calculate_lead_score finds the lead hot.  Both keys are set (a missing
\* key makes a call raise, as a failing provider does); the classifier's
\* answers are one per result the classifier can give; an answer that no
\* path reads is left at its first value.
PollAssessReplies ==
    {r \in AssessReplies :
        /\ r.ok /\ r.fence = "none" /\ r.kind = "dict"
        /\ \/ r.should_end = "true" /\ r.outcome \in {"agreed_to_free_class",
                                                        "not_interested", "continue"}
           \/ r.should_end = "false" /\ r.outcome = "continue"}

Ends(r, keys) ==
    /\ keys.openai
    /\ r.should_end = "true"
    /\ r.outcome \in {"agreed_to_free_class", "not_interested"}

PollInputs ==
    {x \in [keys : {k \in KeyConfigs : k.grok /\ k.openai},
            assess : PollAssessReplies, gen : BOOLEAN \X BOOLEAN,
            intent_data : IntentPayloads, is_hot : BOOLEAN] :
        /\ x.gen[1] => ~x.gen[2]
        /\ x.is_hot => Ends(x.assess, x.keys)
        /\ Ends(x.assess, x.keys) => ~x.intent_data.present /\ ~x.intent_data.valid}

\* The polling pass: where handle() is (pc), how many fetched items its
\* current for loop still has to go through (left), and the conversations
\* it listed as active (conv_data).
Idle == [pc |-> "idle", left |-> 0, conv_data |-> {}]

\* the tables stay within the bounds: a step that would commit a row past
\* them is left out
Fits(d) ==
    /\ Len(d.pending) <= MaxPending
    /\ \A c \in Ids(d.conversations) : Len(d.messages[c]) <= MaxMessages

\* What the last operation did outside the database: a loop body of the
\* polling pass (the conversation, whether the body raised, the branch it
\* took, the classifier's result, whether the body scored the lead hot and
\* whether the sales team was notified), a view's send_response call (the
\* draft, the content handed over, whether the mail was sent), a classifier
\* call (the provider's answer and the keys), a generation call (the keys,
\* the results of the provider calls, the provider that answered and the
\* providers called, the closing template and the name in the request)
\* and a scoring call (the clock and what the call
\* returned, with the points of its buying signals), a context built for
\* the provider (the request's messages), the last line a pass wrote (the two counts in it).  Every
\* other operation leaves Quiet.
Report(op) ==
    [op |-> op, conv |-> 0, raised |-> FALSE, path |-> "none",
     should_end |-> FALSE, outcome |-> None, assess |-> Raised,
     keys |-> [grok |-> FALSE, openai |-> FALSE], notify |-> FALSE,
     pending |-> 0, content |-> None, sent |-> FALSE,
     gen |-> <<FALSE, FALSE>>, provider |-> None, calls |-> <<>>,
     now |-> 0, score |-> 0, is_hot |-> FALSE, factors |-> <<>>,
     recommendations |-> <<>>,
     intent_data |-> [present |-> FALSE, valid |-> FALSE, primary_intent |-> None],
     prompt |-> None, first_name |-> None, summary |-> <<0, 0>>,
     signal_points |-> 0, context |-> <<>>]

Quiet == Report("quiet")

Configs ==
    [cold_lead_notifications_enabled : BOOLEAN,
     cold_lead_threshold_days : 1..ColdLeadThresholdDays,
     max_message_exchanges : 1..MaxMessageExchanges,
     llm_provider_primary : {"grok"},
     llm_provider_fallback : {"openai"}]

\* the database after the migrations, with the SystemConfig row
EmptyDb(cfg) ==
    [prospects |-> <<>>, conversations |-> <<>>, messages |-> <<>>,
     pending |-> <<>>, config |-> cfg]

Init ==
    /\ db \in {EmptyDb(cfg) : cfg \in Configs}
    /\ poll = Idle
    /\ last = Quiet

(* ------------------------------- actions ------------------------------- *)
\* The views, the sweep and the clock run outside the polling process.  A
\* step of theirs between two loop bodies of a pass leaves the same
\* database as the same step before the pass, unless it changes a status
\* after the pass has listed the active conversations and before a listed
\* reply is handled: only those steps are interleaved with a pass.
Outside == poll.pc = "idle" \/ (poll.pc = "replies" /\ poll.left > 0)

\* handle(): fetch_new_prospect_notifications returned n notifications (a
\* pass fetches no more items than the drafts table holds rows)
StartPass ==
    /\ poll.pc = "idle"
    /\ \E n \in 0..MaxPending : poll' = [Idle EXCEPT !.pc = "prospects", !.left = n]
    /\ last' = Quiet
    /\ UNCHANGED db

ProcessProspect ==
    /\ poll.pc = "prospects"
    /\ poll.left > 0
    /\ \E email \in Emails \cup {None}, first_name \in FirstNames, phone \in Phones,
          thread_subject \in Subjects :
          LET body == handle_prospect(db, [email |-> email, first_name |-> first_name,
                                           phone |-> phone,
                                           thread_subject |-> thread_subject])
          IN  /\ Fits(atomic(db, body))
              /\ db' = atomic(db, body)
              /\ poll' = next_item(poll, body.raised)
              /\ last' = [Report("prospect") EXCEPT !.raised = body.raised,
                                                    !.conv = body.conv]

\* the conversations listed whatever their status
FetchRepliesOfAll ==
    /\ poll.pc = "prospects"
    /\ poll.left = 0
    /\ LET conv_data == Ids(db.conversations)
       IN  \E m \in 0..MaxPending :
              /\ conv_data = {} => m = 0
              /\ poll' = [pc |-> "replies", left |-> m, conv_data |-> conv_data]
    /\ last' = Quiet
    /\ UNCHANGED db

\* the active conversations are listed and fetch_replies_to_conversations
\* returned m replies to them
FetchReplies ==
    /\ poll.pc = "prospects"
    /\ poll.left = 0
    /\ LET conv_data == {c \in Ids(db.conversations) :
                            db.conversations[c].status = "active"}
       IN  \E m \in 0..MaxPending :
              /\ conv_data = {} => m = 0
              /\ poll' = [pc |-> "replies", left |-> m, conv_data |-> conv_data]
    /\ last' = Quiet
    /\ UNCHANGED db

\* the handling of a reply to listed conversation c: the loop body run in
\* its transaction, and the report of what it did.  x holds the
\* collaborators' answers; keep: the report keeps the provider's answer to
\* the classifier, the keys and the intent payload of the turn
HandleReply(c, reply_content, x, keep) ==
    LET conv == db.conversations[c]
        reply_data == [thread_subject |-> conv.thread_subject,
                       prospect_email |-> db.prospects[conv.prospect].email,
                       reply_content |-> reply_content]
        body == handle_reply(db, reply_data, x.keys, x)
    IN  /\ Fits(atomic(db, body))
        /\ db' = atomic(db, body)
        /\ last' = [Report("reply") EXCEPT
                       !.conv = body.conv, !.raised = body.raised,
                       !.path = body.path, !.should_end = body.should_end,
                       !.outcome = body.outcome,
                       !.is_hot = body.is_hot /\ ~body.raised,
                       !.notify = body.notify /\ ~body.raised,
                       !.assess = IF keep THEN x.assess ELSE Raised,
                       !.intent_data = IF keep /\ body.path = "turn"
                                       THEN x.intent_data ELSE Quiet.intent_data,
                       !.keys = IF keep THEN x.keys ELSE Quiet.keys]

\* one iteration of "for reply_data in replies"
ProcessReply ==
    /\ poll.pc = "replies"
    /\ poll.left > 0
    /\ \E c \in poll.conv_data, reply_content \in ReplyTexts, x \in PollInputs :
          /\ HandleReply(c, reply_content, x, FALSE)
          /\ poll' = next_item(poll, last'.raised)

EndPass ==
    /\ poll.pc = "replies"
    /\ poll.left = 0
    /\ poll' = Idle
    /\ last' = Quiet
    /\ UNCHANGED db

\* views.approve_response
ApproveView ==
    \E pending_id \in Ids(db.pending), sent \in BOOLEAN :
       /\ poll.pc = "idle"
       /\ LET pending == db.pending[pending_id]
              r == approve_response(db, pending_id, None)
          IN  /\ sent => message_count(db, pending.conversation) < MaxMessages
              /\ db' = send_and_log(r.db, pending_id, get_final_content(pending), sent)
              /\ last' = [Report("approve") EXCEPT
                             !.conv = pending.conversation, !.pending = pending_id,
                             !.content = get_final_content(pending), !.sent = sent]
              /\ UNCHANGED poll

\* views.edit_response
EditView ==
    \E pending_id \in Ids(db.pending), edited_content \in EditTexts, sent \in BOOLEAN :
       /\ poll.pc = "idle"
       /\ LET pending == db.pending[pending_id]
              r == approve_response(db, pending_id, edited_content)
              go == edited_content # "" /\ sent
          IN  /\ go => message_count(db, pending.conversation) < MaxMessages
              /\ db' = IF edited_content = "" THEN db
                       ELSE send_and_log(r.db, pending_id, edited_content, sent)
              /\ last' = IF edited_content = "" THEN Quiet
                         ELSE [Report("edit") EXCEPT
                                  !.conv = pending.conversation, !.pending = pending_id,
                                  !.content = edited_content, !.sent = sent]
              /\ UNCHANGED poll

\* views.reject_response
RejectView ==
    \E pending_id \in Ids(db.pending) :
       /\ poll.pc = "idle"
       /\ db' = reject_response(db, pending_id).db
       /\ last' = Quiet
       /\ UNCHANGED poll

\* views.mark_complete
MarkComplete ==
    \E conversation_id \in Ids(db.conversations), outcome \in PostedOutcomes :
       /\ Outside
       /\ db' = update_conversation_status(db, conversation_id, "complete", outcome).db
       /\ last' = Quiet
       /\ UNCHANGED poll

\* the check_cold_leads command
Sweep ==
    /\ Outside
    /\ db' = check_cold_leads(db).db
    /\ last' = Quiet
    /\ UNCHANGED poll

\* a day passes; ages past the sweep's threshold are all alike
Tick ==
    /\ poll.pc = "idle"
    /\ db' = [db EXCEPT !.conversations =
                 [c \in Ids(db.conversations) |->
                     [db.conversations[c] EXCEPT !.idle_days =
                         IF @ > db.config.cold_lead_threshold_days THEN @ ELSE @ + 1]]]
    /\ last' = Quiet
    /\ UNCHANGED poll

Next ==
    \/ StartPass
    \/ ProcessProspect
    \/ FetchReplies
    \/ ProcessReply
    \/ EndPass
    \/ ApproveView
    \/ EditView
    \/ RejectView
    \/ MarkComplete
    \/ Sweep
    \/ Tick

Spec == Init /\ [][Next]_vars

(* ----------------- the classifier under every provider answer ---------- *)
\* The classifier and the reply handling that calls it, applied to the
\* databases a first notification leaves (none yet, the opening draft
\* queued, the opening sent), with the classifier's provider giving every
\* answer of AssessReplies under every key configuration and the generation
\* calls succeeding at the first try; with both keys set, also the turn
\* carrying every intent payload and the scoring finding the lead hot or
\* not.  The report keeps the answer, the keys and the payload.  The sweep's settings, which none of this reads, are left at one
\* value.
ClassifierInputs ==
    {x \in [keys : KeyConfigs, assess : AssessReplies, gen : {<<TRUE, FALSE>>},
            intent_data : IntentPayloads, is_hot : BOOLEAN] :
        /\ ~(x.intent_data.present /\ x.intent_data.valid) =>
               x.keys.grok /\ x.keys.openai /\ ~x.is_hot
        /\ x.is_hot => x.keys.grok /\ x.keys.openai /\ x.intent_data.primary_intent = None}

ClassifierDbs ==
    UNION {LET queued == handle_prospect(EmptyDb(cfg),
                             [email |-> e, first_name |-> f, phone |-> ph,
                              thread_subject |-> sub]).db
               opening == get_final_content(queued.pending[1])
               sent == send_and_log(approve_response(queued, 1, None).db, 1, opening, TRUE)
           IN  {EmptyDb(cfg), queued, sent} :
           cfg \in {k \in Configs : /\ ~k.cold_lead_notifications_enabled
                                     /\ k.cold_lead_threshold_days = ColdLeadThresholdDays},
           e \in Emails, f \in FirstNames, ph \in Phones, sub \in Subjects}

ClassifierInit ==
    /\ db \in ClassifierDbs
    /\ poll = Idle
    /\ last = Quiet

\* a pass that fetched one reply, taken in one step
ClassifiedReply ==
    \E c \in Ids(db.conversations), reply_content \in ReplyTexts, x \in ClassifierInputs :
       /\ db.conversations[c].status = "active"
       /\ HandleReply(c, reply_content, x, TRUE)
       /\ UNCHANGED poll

\* a direct call detect_conversation_outcome(conversation_id, ...), also
\* with an id no conversation has
Classify ==
    \E conversation_id \in 1..(Len(db.conversations) + 1), keys \in KeyConfigs,
       assess \in AssessReplies :
       LET a == detect_conversation_outcome(db, conversation_id, keys, <<assess, assess>>)
       IN  /\ last' = [Report("classify") EXCEPT
                          !.conv = conversation_id, !.raised = a.raised,
                          !.should_end = a.should_end, !.outcome = a.outcome,
                          !.assess = assess, !.keys = keys, !.calls = a.calls]
           /\ UNCHANGED <<db, poll>>

ClassifierNext ==
    \/ ClassifiedReply
    \/ Classify

ClassifierSpec == ClassifierInit /\ [][ClassifierNext]_vars

(* --------------- generation under every provider configuration --------- *)
\* generate_response and generate_closing_message called directly, with
\* either provider configured as primary and as fallback, under every key
\* configuration and every pair of results of the first and the second
\* provider call; the report keeps the keys, the results (gen), whether the
\* call raised, the provider that answered and the providers called.
Providers == {"grok", "openai"}

GenerationConfigs ==
    [cold_lead_notifications_enabled : {FALSE},
     cold_lead_threshold_days : {ColdLeadThresholdDays},
     max_message_exchanges : {MaxMessageExchanges},
     llm_provider_primary : Providers,
     llm_provider_fallback : Providers]

GenerationFirstNames == FirstNames \cup {"Bea"}

\* the outcomes a closing message is asked for: those of the form, the
\* limit's, and one that has no template
ClosingOutcomes == PostedOutcomes \cup {"reached_message_limit", "follow_up_needed"}

GenerationInit ==
    /\ db \in UNION {{EmptyDb(cfg),
                      handle_prospect(EmptyDb(cfg),
                          [email |-> e, first_name |-> f, phone |-> ph,
                           thread_subject |-> sub]).db} :
                     cfg \in GenerationConfigs, e \in Emails, f \in GenerationFirstNames,
                     ph \in Phones, sub \in Subjects}
    /\ poll = Idle
    /\ last = Quiet

GenerateResponse ==
    \E conversation_id \in 1..(Len(db.conversations) + 1), keys \in KeyConfigs,
       g \in BOOLEAN \X BOOLEAN :
       LET r == generate_response(db, conversation_id, keys, g)
       IN  /\ last' = [Report("generate_response") EXCEPT
                          !.conv = conversation_id, !.raised = r.raised,
                          !.keys = keys, !.gen = g, !.content = r.text,
                          !.provider = r.provider, !.calls = r.calls]
           /\ UNCHANGED <<db, poll>>

GenerateClosingMessage ==
    \E conversation_id \in 1..(Len(db.conversations) + 1), keys \in KeyConfigs,
       g \in BOOLEAN \X BOOLEAN, outcome \in ClosingOutcomes :
       LET r == generate_closing_message(db, conversation_id, outcome, keys, g)
       IN  /\ last' = [Report("generate_closing_message") EXCEPT
                          !.conv = conversation_id, !.raised = r.raised,
                          !.keys = keys, !.gen = g, !.content = r.text,
                          !.outcome = outcome, !.prompt = r.prompt,
                          !.first_name = r.first_name,
                          !.provider = r.provider, !.calls = r.calls]
           /\ UNCHANGED <<db, poll>>

GenerationNext ==
    \/ GenerateResponse
    \/ GenerateClosingMessage

GenerationSpec == GenerationInit /\ [][GenerationNext]_vars

(* --------------------- replies after an outcome ------------------------ *)
\* Passes that each fetched one reply to an active conversation, taken in one
\* step each, on the databases a first notification leaves, until the
\* conversation has MaxReplies prospect messages.
MaxReplies == 3

ReplyInPass ==
    \E c \in Ids(db.conversations), reply_content \in ReplyTexts, x \in PollInputs :
       LET conv == db.conversations[c]
           reply_data == [thread_subject |-> conv.thread_subject,
                          prospect_email |-> db.prospects[conv.prospect].email,
                          reply_content |-> reply_content]
           body == handle_reply(db, reply_data, x.keys, x)
       IN  /\ conv.status = "active"
           /\ Len(WithRoles(db.messages[c], {"prospect"})) < MaxReplies
           /\ db' = atomic(db, body)
           /\ last' = [Report("reply") EXCEPT
                          !.conv = body.conv, !.raised = body.raised,
                          !.path = body.path, !.should_end = body.should_end,
                          !.outcome = body.outcome,
                          !.is_hot = body.is_hot /\ ~body.raised,
                          !.notify = body.notify /\ ~body.raised,
                          !.assess = x.assess, !.keys = x.keys]
           /\ UNCHANGED poll

RepliesSpec == ClassifierInit /\ [][ReplyInPass]_vars

(* ------------------------ contexts of transcripts --------------------- *)
\* build_conversation_context applied to a conversation with a transcript of
\* up to MaxContextMessages messages of the roles of Message.ROLE_CHOICES.
MaxContextMessages == 4

ContextInit ==
    /\ \E n \in 0..MaxContextMessages :
          \E transcript \in [1..n -> [role : {"prospect", "llm_generated", "sent"},
                                     content : {"hi", "opening"}]] :
             db = [handle_prospect(EmptyDb(CHOOSE cfg \in Configs : TRUE),
                                   [email |-> "ann@x", first_name |-> "Ann",
                                    phone |-> None,
                                    thread_subject |-> "New Prospect Notification"]).db
                   EXCEPT !.messages[1] = transcript]
    /\ poll = Idle
    /\ last = Quiet

BuildContext ==
    \E conversation \in Ids(db.conversations) :
       /\ last' = [Report("build_conversation_context") EXCEPT
                      !.conv = conversation,
                      !.context = build_conversation_context(db, conversation)]
       /\ UNCHANGED <<db, poll>>

ContextSpec == ContextInit /\ [][BuildContext]_vars

(* ------------------- scoring over the scoring signals ------------------ *)
\* calculate_lead_score applied to a database with one conversation, drawn
\* over the signals the score reads: the prospect's phone, the outcome, an
\* opening message with or without an INTENT_DETECTION block, and up to
\* MaxProspectMessages prospect messages, the first of them created at each
\* delay around the response-time limits, before, within and after business
\* hours, long or short, with or without buying keywords.
MaxProspectMessages == 3

ScoredIntents ==
    {NoIntent, [NoIntent EXCEPT !.found = TRUE]}
    \cup [found : {TRUE}, valid : {TRUE},
          detected_intent : {"weight_loss", "general_fitness"},
          confidence_level : {40, 41, 60, 61, 80, 81}]

\* 08:55 and 17:00 on the first day
CreatedAts == {32100, 61200}

Delays == {299, 300, 899, 900, 3599, 3600, 86399, 86400}

Text(long, keywords, intent) == [long |-> long, keywords |-> keywords, intent |-> intent]

ScoredMessages(created_at, intent, n, delay, long, keywords) ==
    <<[role |-> "sent", content |-> Text(FALSE, {}, intent), created_at |-> created_at]>>
    \o [i \in 1..n |->
           [role |-> "prospect",
            content |-> IF i = 1 THEN Text(long, keywords, NoIntent)
                        ELSE Text(FALSE, {}, NoIntent),
            created_at |-> created_at + delay + (i - 1)]]

ScoredDb(phone, outcome, created_at, messages) ==
    [prospects |-> <<[email |-> "ann@x", first_name |-> "Ann", phone |-> phone]>>,
     conversations |-> <<[prospect |-> 1, thread_subject |-> "New Prospect Notification",
                          status |-> "active", outcome |-> outcome, intent |-> None,
                          idle_days |-> 0, created_at |-> created_at]>>,
     messages |-> <<messages>>,
     pending |-> <<>>,
     config |-> CHOOSE cfg \in Configs : TRUE]

ScoredOutcomes == {None, "agreed_to_free_class", "not_interested",
                   "reached_message_limit"}

\* a conversation without prospect messages has no delay, length or keywords
ScoringSignals ==
    {x \in [n : 0..MaxProspectMessages, delay : Delays, long : BOOLEAN,
            keywords : SUBSET {"when", "cost"}] :
        x.n = 0 => x.delay = 299 /\ ~x.long /\ x.keywords = {}}

ScoringInit ==
    /\ \E phone \in Phones \cup {None}, outcome \in ScoredOutcomes,
          created_at \in CreatedAts, intent \in ScoredIntents, x \in ScoringSignals :
          db = ScoredDb(phone, outcome, created_at,
                        ScoredMessages(created_at, intent, x.n, x.delay, x.long,
                                       x.keywords))
    /\ poll = Idle
    /\ last = Quiet

\* the clock at a call
Clocks == {0, 1}

Score ==
    \E conversation \in Ids(db.conversations), now \in Clocks :
       LET r == calculate_lead_score(db, conversation, now)
       IN  /\ db' = r.db
           /\ last' = [Report("score") EXCEPT
                          !.conv = conversation, !.now = now, !.score = r.score,
                          !.is_hot = r.is_hot, !.factors = r.factors,
                          !.recommendations = r.recommendations,
                          !.signal_points = r.signal_points]
           /\ UNCHANGED poll

ScoringNext == Score

ScoringSpec == ScoringInit /\ [][ScoringNext]_vars

(* ------------------- scoring over the buying keywords ------------------ *)
\* calculate_lead_score applied to a conversation with an opening message
\* and up to MaxSignalMessages prospect messages, each with none, one or
\* several buying keywords of one or two types.
MaxSignalMessages == 4

SignalKeywords ==
    {{}, {"when"}, {"when", "book"}, {"cost"}, {"price", "how much", "today"}}

SignalMessages(created_at, keywords) ==
    <<[role |-> "sent", content |-> Text(FALSE, {}, NoIntent), created_at |-> created_at]>>
    \o [i \in 1..Len(keywords) |->
           [role |-> "prospect", content |-> Text(FALSE, keywords[i], NoIntent),
            created_at |-> created_at + i]]

SignalInit ==
    /\ \E n \in 0..MaxSignalMessages :
          \E keywords \in [1..n -> SignalKeywords] :
             db = ScoredDb(None, None, 61200, SignalMessages(61200, keywords))
    /\ poll = Idle
    /\ last = Quiet

SignalNext == Score

SignalSpec == SignalInit /\ [][SignalNext]_vars

(* ------------------- calls with ids that do not exist ------------------ *)
\* The service functions called directly on the databases a first
\* notification leaves, with the ids that exist and with one that does not,
\* and a reply handled for a thread no conversation has; the report keeps
\* the id and whether the caller got an error (an exception, or success
\* False from approve_response and reject_response).
PostedStatuses == {None, "active", "complete"}

CallUpdateConversationStatus ==
    \E conversation_id \in 1..(Len(db.conversations) + 1), status \in PostedStatuses,
       outcome \in PostedOutcomes :
       LET r == update_conversation_status(db, conversation_id, status, outcome)
       IN  /\ db' = r.db
           /\ last' = [Report("update_conversation_status") EXCEPT
                          !.conv = conversation_id, !.raised = r.raised]
           /\ UNCHANGED poll

CallApproveResponse ==
    \E pending_id \in 1..(Len(db.pending) + 1), edited_content \in EditTexts \cup {None} :
       LET r == approve_response(db, pending_id, edited_content)
       IN  /\ db' = r.db
           /\ last' = [Report("approve_response") EXCEPT
                          !.pending = pending_id, !.raised = r.raised]
           /\ UNCHANGED poll

CallRejectResponse ==
    \E pending_id \in 1..(Len(db.pending) + 1) :
       LET r == reject_response(db, pending_id)
       IN  /\ db' = r.db
           /\ last' = [Report("reject_response") EXCEPT
                          !.pending = pending_id, !.raised = r.raised]
           /\ UNCHANGED poll

\* a pass handles a fetched reply whose sender or subject belongs to no
\* conversation; the collaborators, which this path does not reach, give
\* one answer
ReplyToUnknownThread ==
    \E prospect_email \in Emails \cup {"eve@x"},
       thread_subject \in Subjects \cup {"Re: something else"},
       reply_content \in ReplyTexts, x \in {CHOOSE y \in PollInputs : TRUE} :
       LET reply_data == [thread_subject |-> thread_subject,
                          prospect_email |-> prospect_email,
                          reply_content |-> reply_content]
           body == handle_reply(db, reply_data, x.keys, x)
       IN  /\ get_conversation_by_thread(db, prospect_email, thread_subject) = 0
           /\ db' = atomic(db, body)
           /\ last' = [Report("reply") EXCEPT
                          !.conv = body.conv, !.raised = body.raised,
                          !.path = body.path]
           /\ UNCHANGED poll

IntegrityInit ==
    /\ db \in ClassifierDbs
    /\ poll = Idle
    /\ last = Quiet

IntegrityNext ==
    \/ GenerateResponse
    \/ GenerateClosingMessage
    \/ Classify
    \/ CallUpdateConversationStatus
    \/ CallApproveResponse
    \/ CallRejectResponse
    \/ ReplyToUnknownThread

IntegritySpec == IntegrityInit /\ [][IntegrityNext]_vars

(* ----------------------- models.SystemPrompt -------------------------- *)
\* The prompt tables: db.prompts, for each name whether the SystemPrompt row
\* exists and the id of its active version (0: NULL), and db.versions, the
\* SystemPromptVersion rows in the order they were created, the id of a row
\* its place.  poll: for each caller of create_and_activate_new_version
\* where the call is, on which prompt, and the number it determined.
MaxVersions == 3

PromptNames == {"Sales System Prompt", "Closing Message Prompt"}

PromptContents == {"initial", "edited"}

Callers == {1, 2}

versions_of(d, name) == {i \in Ids(d.versions) : d.versions[i].prompt = name}

\* a number that leaves a gap after the last one
new_version_number_skipping(d, name) ==
    LET numbers == {d.versions[i].version : i \in versions_of(d, name)}
    IN  IF numbers = {} THEN 1
        ELSE (CHOOSE n \in numbers : \A m \in numbers : m <= n) + 2

\* "last_version = self.versions.order_by('-version').first()" and the next
\* line
new_version_number(d, name) ==
    LET numbers == {d.versions[i].version : i \in versions_of(d, name)}
    IN  IF numbers = {} THEN 1
        ELSE (CHOOSE n \in numbers : \A m \in numbers : m <= n) + 1

\* SystemPromptVersion.objects.create and the save of the pointer, in one
\* transaction; unique_together = ('prompt', 'version') makes the create
\* raise when the prompt has a version of this number
create_version(d, name, content, version) ==
    IF \E i \in versions_of(d, name) : d.versions[i].version = version
    THEN Ret(d, TRUE, 0)
    ELSE Ret([d EXCEPT !.versions = Append(@, [prompt |-> name, content |-> content,
                                               version |-> version]),
                       !.prompts[name].active_version = Len(d.versions) + 1],
             FALSE, Len(d.versions) + 1)

\* one iteration of initialize_prompts' loop: get_or_create of the prompt,
\* and its version 1 when it has no version
initialize_prompt(d, name) ==
    LET got == [d EXCEPT !.prompts[name].exists = TRUE]
    IN  IF versions_of(got, name) = {}
        THEN atomic(d, create_version(got, name, "initial", 1))
        ELSE got

NoPrompts ==
    [prompts |-> [name \in PromptNames |-> [exists |-> FALSE, active_version |-> 0]],
     versions |-> <<>>]

NoCall == [pc |-> "idle", name |-> None, version |-> 0]

PromptInit ==
    /\ db = NoPrompts
    /\ poll = [k \in Callers |-> NoCall]
    /\ last = Quiet

\* the admin site adds a SystemPrompt
AddPrompt ==
    \E name \in PromptNames :
       /\ ~db.prompts[name].exists
       /\ db' = [db EXCEPT !.prompts[name].exists = TRUE]
       /\ last' = Quiet
       /\ UNCHANGED poll

\* the initialize_prompts command
InitializePrompts ==
    /\ LET names == CHOOSE q \in [1..Cardinality(PromptNames) -> PromptNames] :
                        \A i, j \in DOMAIN q : i # j => q[i] # q[j]
           after == initialize_prompt(initialize_prompt(db, names[1]), names[2])
       IN  /\ Len(after.versions) <= MaxVersions
           /\ db' = after
    /\ last' = Report("initialize_prompts")
    /\ UNCHANGED poll

\* create_and_activate_new_version up to the transaction: the number is
\* determined
DetermineNumber ==
    \E k \in Callers, name \in PromptNames :
       /\ poll[k].pc = "idle"
       /\ db.prompts[name].exists
       /\ poll' = [poll EXCEPT ![k] = [pc |-> "determined", name |-> name,
                                       version |-> new_version_number(db, name)]]
       /\ last' = Quiet
       /\ UNCHANGED db

\* the transaction of create_and_activate_new_version
CreateAndActivate ==
    \E k \in Callers, new_content \in PromptContents :
       /\ poll[k].pc = "determined"
       /\ LET body == create_version(db, poll[k].name, new_content, poll[k].version)
          IN  /\ Len(atomic(db, body).versions) <= MaxVersions
              /\ db' = atomic(db, body)
              /\ last' = [Report("create_and_activate_new_version") EXCEPT
                             !.raised = body.raised, !.prompt = poll[k].name,
                             !.content = new_content]
       /\ poll' = [poll EXCEPT ![k] = NoCall]

PromptNext ==
    \/ AddPrompt
    \/ InitializePrompts
    \/ DetermineNumber
    \/ CreateAndActivate

PromptSpec == PromptInit /\ [][PromptNext]_vars

(* ----------------------- models.SystemConfig -------------------------- *)
\* The SystemConfig table: db.rows, the rows, each with its primary key and,
\* of its fields, the cold-lead threshold.  poll: the instances the callers
\* hold in memory (pk 0: not set).
ConfigDefaults == [pk |-> 1, cold_lead_threshold_days |-> 7]

ConfigPks == {0, 1, 2}

ConfigDays == {7, 14}

ConfigInstances == [pk : ConfigPks, cold_lead_threshold_days : ConfigDays]

Holders == {1, 2}

NoInstance == [pk |-> 0, cold_lead_threshold_days |-> 0]

\* Model.save: the row of the instance's key is updated, or inserted when
\* there is none
model_save(rows, obj) == {r \in rows : r.pk # obj.pk} \cup {obj}

\* a save that keeps the key of the instance
save_with_own_pk(rows, obj) == model_save(rows, obj)

\* SystemConfig.save: "self.pk = 1" and Model.save
save(rows, obj) == model_save(rows, [obj EXCEPT !.pk = 1])

\* SystemConfig.delete: "pass"
delete(rows, obj) == rows

\* SystemConfig.load: get_or_create(pk=1), the create going through save
load(rows) ==
    IF \E r \in rows : r.pk = 1
    THEN [rows |-> rows, obj |-> CHOOSE r \in rows : r.pk = 1]
    ELSE [rows |-> save(rows, ConfigDefaults), obj |-> ConfigDefaults]

ConfigInit ==
    /\ db = [rows |-> {}]
    /\ poll = [k \in Holders |-> NoInstance]
    /\ last = Quiet

\* SystemConfig(...): an instance built in memory, with any key
Construct ==
    \E k \in Holders, obj \in ConfigInstances :
       /\ poll' = [poll EXCEPT ![k] = obj]
       /\ last' = Quiet
       /\ UNCHANGED db

Load ==
    \E k \in Holders :
       /\ db' = [db EXCEPT !.rows = load(db.rows).rows]
       /\ poll' = [poll EXCEPT ![k] = load(db.rows).obj]
       /\ last' = [Report("load") EXCEPT !.pending = k]

\* obj.save() on a held instance; the instance has pk 1 afterwards
Save ==
    \E k \in Holders :
       /\ poll[k] # NoInstance
       /\ db' = [db EXCEPT !.rows = save(db.rows, poll[k])]
       /\ poll' = [poll EXCEPT ![k].pk = 1]
       /\ last' = [Report("save") EXCEPT !.pending = k]

Delete ==
    \E k \in Holders :
       /\ poll[k] # NoInstance
       /\ db' = [db EXCEPT !.rows = delete(db.rows, poll[k])]
       /\ last' = [Report("delete") EXCEPT !.pending = k]
       /\ UNCHANGED poll

ConfigNext ==
    \/ Construct
    \/ Load
    \/ Save
    \/ Delete

ConfigSpec == ConfigInit /\ [][ConfigNext]_vars

(* ------------------ the polling pass and its summary ------------------ *)
\* handle() with what it knows at its last line: the numbers of fetched
\* notifications and replies (new_prospects, replies), and for the items
\* gone through so far how many loop bodies ended without raising
\* (succeeded) and how many were caught by "except Exception" and written
\* as an error line (errors)
Counting ==
    [pc |-> "idle", left |-> 0, conv_data |-> {},
     new_prospects |-> 0, replies |-> 0, succeeded |-> 0, errors |-> 0]

\* the except clause of a loop body writes one error line for a body that
\* raised
count_item(p, raised) ==
    [next_item(p, raised) EXCEPT !.succeeded = IF raised THEN @ ELSE @ + 1,
                                 !.errors = IF raised THEN @ + 1 ELSE @]

\* "Processed {len(new_prospects)} new prospects and {len(replies)} replies."
polling_complete(p) == <<p.new_prospects, p.replies>>

SummaryInit ==
    /\ db \in {EmptyDb(cfg) : cfg \in Configs}
    /\ poll = Counting
    /\ last = Quiet

CountedStart ==
    /\ poll.pc = "idle"
    /\ \E n \in 0..MaxPending :
          poll' = [Counting EXCEPT !.pc = "prospects", !.left = n, !.new_prospects = n]
    /\ last' = Quiet
    /\ UNCHANGED db

CountedProspect ==
    /\ poll.pc = "prospects"
    /\ poll.left > 0
    /\ \E email \in Emails \cup {None}, first_name \in FirstNames, phone \in Phones,
          thread_subject \in Subjects :
          LET body == handle_prospect(db, [email |-> email, first_name |-> first_name,
                                           phone |-> phone,
                                           thread_subject |-> thread_subject])
          IN  /\ Fits(atomic(db, body))
              /\ db' = atomic(db, body)
              /\ poll' = count_item(poll, body.raised)
              /\ last' = [Report("prospect") EXCEPT !.raised = body.raised,
                                                    !.conv = body.conv]

CountedFetch ==
    /\ poll.pc = "prospects"
    /\ poll.left = 0
    /\ LET conv_data == {c \in Ids(db.conversations) :
                            db.conversations[c].status = "active"}
       IN  \E m \in 0..MaxPending :
              /\ conv_data = {} => m = 0
              /\ poll' = [poll EXCEPT !.pc = "replies", !.left = m,
                                      !.conv_data = conv_data, !.replies = m]
    /\ last' = Quiet
    /\ UNCHANGED db

CountedReply ==
    /\ poll.pc = "replies"
    /\ poll.left > 0
    /\ \E c \in poll.conv_data, reply_content \in ReplyTexts, x \in PollInputs :
          /\ HandleReply(c, reply_content, x, FALSE)
          /\ poll' = count_item(poll, last'.raised)

\* the last line of handle(); the counts stay with poll until the next pass
CountedEnd ==
    /\ poll.pc = "replies"
    /\ poll.left = 0
    /\ poll' = [poll EXCEPT !.pc = "idle", !.conv_data = {}]
    /\ last' = [Report("summary") EXCEPT !.summary = polling_complete(poll)]
    /\ UNCHANGED db

SummaryNext ==
    \/ CountedStart
    \/ CountedProspect
    \/ CountedFetch
    \/ CountedReply
    \/ CountedEnd

SummarySpec == SummaryInit /\ [][SummaryNext]_vars

(* ------------------------------ properties ----------------------------- *)
\* the last operation was a call of the classifier: a direct one, or the
\* one a handled reply made
Classified == last.op \in {"classify", "reply"} /\ last.path # "not_found"

\* the classifier's call failed: no conversation has the id, settings hold
\* no OpenAI key, the provider call raised, or the text it returned is not
\* a JSON object once the code fence is stripped
ClassifierFailed ==
    \/ last.op = "classify" /\ last.conv \notin Ids(db.conversations)
    \/ ~last.keys.openai
    \/ ~last.assess.ok
    \/ last.assess.kind # "dict"

\* a loop body of the polling pass has just run
PassItemStep ==
    /\ poll.pc \in {"prospects", "replies"}
    /\ poll.left > 0
    /\ poll' # poll

\* the step appended a message with role 'sent' to conversation c
SentAppended(c) ==
    /\ Len(db'.messages[c]) > (IF c \in Ids(db.conversations) THEN Len(db.messages[c]) ELSE 0)
    /\ Last(db'.messages[c]).role = "sent"

\* the drafts of conversation c still waiting for a decision
PendingOf(d, c) ==
    {p \in Ids(d.pending) : d.pending[p].conversation = c /\ d.pending[p].status = "pending"}

\* the conversation's messages number twice max_message_exchanges or more
AtLimit(d, c) == Len(d.messages[c]) >= 2 * d.config.max_message_exchanges

\* the conversation is one the claim's sweep conditions select
SweepConditions(d, c) ==
    /\ d.config.cold_lead_notifications_enabled
    /\ d.conversations[c].idle_days > d.config.cold_lead_threshold_days
    /\ d.messages[c] # <<>>
    /\ Last(d.messages[c]).role = "sent"

\* C1: every pair (should_end, outcome) the classifier returns has
\* outcome non-null exactly when should_end is true.
C1_should_end_iff_outcome ==
    Classified => (last.should_end <=> last.outcome # None)

\* C2: a step appends a 'sent' message to a conversation only if it is an
\* approve or edit view that sent the mail of a draft of that conversation
\* which the step leaves approved or edited; a loop body of the polling pass
\* appends no 'sent' message, changes no existing draft and adds drafts in
\* status pending only.
C2_sent_only_after_approval ==
    [][/\ \A c \in Ids(db'.conversations) :
             SentAppended(c) =>
                 /\ last'.op \in {"approve", "edit"}
                 /\ last'.sent
                 /\ last'.pending \in Ids(db'.pending)
                 /\ db'.pending[last'.pending].conversation = c
                 /\ db'.pending[last'.pending].status \in {"approved", "edited"}
       /\ PassItemStep =>
             /\ ~last'.sent
             /\ \A c \in Ids(db'.conversations) : ~SentAppended(c)
             /\ \A p \in Ids(db'.pending) :
                    IF p \in Ids(db.pending)
                    THEN db'.pending[p] = db.pending[p]
                    ELSE db'.pending[p].status = "pending"]_vars

\* C2 witness: a view sent a draft's mail and the transcript ends with the
\* 'sent' message.
C2_witness ==
    /\ last.op \in {"approve", "edit"}
    /\ last.sent
    /\ Last(db.messages[last.conv]).role = "sent"
    /\ db.pending[last.pending].status \in {"approved", "edited"}

\* C3 as stated: after a reply is handled in a conversation whose message
\* count has reached twice max_message_exchanges, the conversation's
\* outcome is reached_message_limit whatever the classifier returned.
C3_limit_always_wins ==
    (last.op = "reply" /\ ~last.raised /\ AtLimit(db, last.conv)) =>
        db.conversations[last.conv].outcome = "reached_message_limit"

\* C3 amended: after a reply is handled in a conversation whose message
\* count has reached twice max_message_exchanges, the outcome is the
\* classifier's when it returned should_end with a terminal outcome, and
\* reached_message_limit otherwise.
C3_limit_after_classifier ==
    (last.op = "reply" /\ ~last.raised /\ AtLimit(db, last.conv)) =>
        db.conversations[last.conv].outcome =
            IF last.should_end /\ last.outcome # None THEN last.outcome
            ELSE "reached_message_limit"

\* C3 witness: the classifier asked to end without a terminal outcome on a
\* reply that reached the limit, and the limit closed the conversation.
C3_witness ==
    /\ last.op = "reply" /\ ~last.raised /\ last.path = "limit"
    /\ last.should_end
    /\ db.conversations[last.conv].outcome = "reached_message_limit"
    /\ Last(db.pending).llm_content = "closing"

\* C4: every conversation has at most one draft in status pending.
C4_one_pending_per_conversation ==
    \A c \in Ids(db.conversations) : Cardinality(PendingOf(db, c)) <= 1

\* C5: a reply whose handling raises leaves the database as it was: no
\* prospect message, no draft, the same outcome, intent and status.
C5_failed_reply_commits_nothing ==
    [][(PassItemStep /\ last'.op = "reply" /\ last'.raised) => db' = db]_vars

\* C5 witness: the handling of a reply raised on the turn path, after the
\* prospect's message was logged.
C5_witness ==
    /\ last.op = "reply" /\ last.raised /\ last.path = "turn"
    /\ db.conversations[last.conv].status = "active"

\* C6: a loop body of the pass, raising or not, leaves the pass in its loop
\* with one item fewer to go, and the pass ends only when its reply loop
\* has no item left.
C6_failure_does_not_abort_pass ==
    [][/\ PassItemStep => (poll'.pc = poll.pc /\ poll'.left = poll.left - 1)
       /\ (poll.pc # "idle" /\ poll'.pc = "idle") => (poll.pc = "replies" /\ poll.left = 0)
       /\ (poll.pc = "prospects" /\ poll'.pc # "prospects") =>
              (poll'.pc = "replies" /\ poll.left = 0)]_vars

\* C6 witness: a reply's handling raised and the pass still has a reply to
\* handle.
C6_witness ==
    /\ last.op = "reply" /\ last.raised
    /\ poll.pc = "replies" /\ poll.left > 0

\* C7: when the classification fails (conversation lookup, missing key,
\* provider call, unparsable output) the classifier returns (false, null)
\* and raises nothing, and a reply being handled goes on to the limit check
\* and the normal turn.
C7_failure_defaults_to_continue ==
    (Classified /\ ClassifierFailed) =>
        /\ ~last.should_end
        /\ last.outcome = None
        /\ last.op = "classify" => ~last.raised
        /\ last.op = "reply" => last.path \in {"limit", "turn"}

\* C7 witness: a reply was handled while the provider's answer to the
\* classifier was not JSON, and the turn was drafted all the same.
C7_witness ==
    /\ last.op = "reply"
    /\ last.keys.openai /\ last.assess.ok /\ last.assess.kind = "text"
    /\ last.path = "turn"
    /\ ~last.raised
    /\ Last(db.pending).conversation = last.conv

\* C8: the outcome the classifier returns is agreed_to_free_class,
\* not_interested or null, whatever the model answered.
C8_outcome_in_range ==
    Classified => last.outcome \in {"agreed_to_free_class", "not_interested", None}

\* C8 witness: the model answered with an outcome string outside the two
\* terminal ones and the classifier returned null for it.
C8_witness ==
    /\ last.op = "classify"
    /\ ~ClassifierFailed
    /\ last.assess.outcome \in {"continue", "follow_up_needed"}
    /\ last.outcome = None

\* C9: the sweep returns and marks cold exactly the active conversations
\* for which notifications are enabled, the last message is older than the
\* threshold and the last message of the transcript is outbound; it changes
\* nothing else.
C9_sweep_marks_iff ==
    LET r == check_cold_leads(db)
        marked == {c \in Ids(db.conversations) :
                      db.conversations[c].status = "active" /\ SweepConditions(db, c)}
    IN  /\ r.cold_conversations = marked
        /\ \A c \in Ids(db.conversations) :
               r.db.conversations[c] =
                   IF c \in marked THEN [db.conversations[c] EXCEPT !.status = "cold"]
                   ELSE db.conversations[c]
        /\ [r.db EXCEPT !.conversations = db.conversations] = db

\* C9 witness: notifications are enabled and an active conversation is
\* older than the threshold with the prospect's message last, next to the
\* sweep having marked nothing.
C9_witness ==
    \E c \in Ids(db.conversations) :
       /\ db.config.cold_lead_notifications_enabled
       /\ db.conversations[c].status = "active"
       /\ db.conversations[c].idle_days > db.config.cold_lead_threshold_days
       /\ db.messages[c] # <<>>
       /\ Last(db.messages[c]).role = "prospect"
       /\ check_cold_leads(db).cold_conversations = {}

\* C10: a second sweep right after a sweep changes no conversation and
\* returns the empty list.
C10_sweep_idempotent ==
    LET first == check_cold_leads(db)
        second == check_cold_leads(first.db)
    IN  second.db = first.db /\ second.cold_conversations = {}

\* C10 witness: a conversation the sweep marked cold still meets the age
\* and last-message conditions.
C10_witness ==
    \E c \in Ids(db.conversations) :
       db.conversations[c].status = "cold" /\ SweepConditions(db, c)

\* C11: once the closing message of a conversation whose outcome is decided
\* has been approved and sent, the conversation's status is complete.
C11_complete_after_closing_sent ==
    (/\ last.op \in {"approve", "edit"}
     /\ last.sent
     /\ db.pending[last.pending].llm_content = "closing"
     /\ db.conversations[last.conv].outcome # None) =>
        db.conversations[last.conv].status = "complete"

\* C12: a conversation whose status is cold or complete becomes active again
\* only by the reopen of create_conversation, run for a new inbound message
\* on that thread, and the reopen leaves it active with no outcome.
C12_terminal_only_reopened ==
    [][\A c \in Ids(db.conversations) :
          (/\ db.conversations[c].status \in {"cold", "complete"}
           /\ db'.conversations[c].status = "active") =>
              /\ last'.op = "prospect"
              /\ last'.conv = c
              /\ db'.conversations[c].outcome = None]_vars

\* C13 as stated: after an approval with edited text the draft holds that
\* text with status edited and the text is what is sent and logged; after an
\* approval without edited text the draft's status is approved and its final
\* content, the body sent and logged, is the original generated text.
C13_final_content_as_approved ==
    /\ last.op = "edit" =>
          LET p == db.pending[last.pending]
          IN  /\ p.edited_content = last.content
              /\ p.status = "edited"
              /\ get_final_content(p) = last.content
              /\ last.content # p.llm_content
              /\ last.sent => Last(db.messages[last.conv]) =
                                  [role |-> "sent", content |-> last.content]
    /\ last.op = "approve" =>
          LET p == db.pending[last.pending]
          IN  /\ p.status = "approved"
              /\ get_final_content(p) = p.llm_content
              /\ last.content = p.llm_content
              /\ last.sent => Last(db.messages[last.conv]) =
                                  [role |-> "sent", content |-> p.llm_content]

\* C13 amended: an approval with edited text stores the text, sets status
\* edited and sends and logs that text; an approval without edited text sets
\* status approved and leaves the stored edit and the final content as they
\* were, which is the original text when no edit was stored before.
C13_final_content_edited_or_kept ==
    [][/\ last'.op = "edit" =>
             LET p == db'.pending[last'.pending]
             IN  /\ p.edited_content = last'.content
                 /\ p.status = "edited"
                 /\ get_final_content(p) = last'.content
                 /\ last'.content # p.llm_content
                 /\ last'.sent => Last(db'.messages[last'.conv]) =
                                      [role |-> "sent", content |-> last'.content]
       /\ last'.op = "approve" =>
             LET p == db'.pending[last'.pending]
                 q == db.pending[last'.pending]
             IN  /\ p.status = "approved"
                 /\ p.edited_content = q.edited_content
                 /\ get_final_content(p) = get_final_content(q)
                 /\ q.edited_content = None => get_final_content(p) = p.llm_content
                 /\ last'.content = get_final_content(p)
                 /\ last'.sent => Last(db'.messages[last'.conv]) =
                                      [role |-> "sent",
                                       content |-> get_final_content(p)]]_vars

\* C13 witness: a draft whose edit was stored earlier is approved without
\* edited text and the stored edit is what is sent and logged.
C13_witness ==
    /\ last.op = "approve"
    /\ last.sent
    /\ db.pending[last.pending].status = "approved"
    /\ db.pending[last.pending].edited_content = "edited"
    /\ Last(db.messages[last.conv]) = [role |-> "sent", content |-> "edited"]

\* C14: a turn or closing generation for an existing conversation, with
\* both providers' keys set and the fallback provider configured to be the
\* other one, calls the configured primary provider first;
\* when that call succeeds nothing else is called, when it raises the
\* configured fallback provider is called once, and the generation raises
\* only when that second call raises too.
C14_primary_then_fallback_once ==
    (/\ last.op \in {"generate_response", "generate_closing_message"}
     /\ last.conv \in Ids(db.conversations)
     /\ last.keys.grok /\ last.keys.openai
     /\ db.config.llm_provider_primary # db.config.llm_provider_fallback) =>
        LET primary == db.config.llm_provider_primary
            secondary == db.config.llm_provider_fallback
        IN  IF last.gen[1]
            THEN /\ last.calls = <<primary>>
                 /\ ~last.raised
                 /\ last.provider = primary
            ELSE /\ last.calls = <<primary, secondary>>
                 /\ last.raised = ~last.gen[2]
                 /\ ~last.raised => last.provider = secondary

\* the last operation was a call of calculate_lead_score
Scored == last.op = "score"

\* the prospect messages of the scored conversation, oldest first
ScoredReplies == WithRoles(db.messages[last.conv], {"prospect"})

\* C15: the score calculate_lead_score returns lies between 0 and 100
\* hundredths, and is_hot is true exactly when the score is 70 or more.
C15_score_in_range_hot_iff ==
    Scored =>
        /\ last.score \in 0..100
        /\ last.is_hot <=> last.score >= 70

\* C15 witness: a conversation whose signals add up to more than a whole
\* point was scored: the score is capped at 100 and the lead is hot.
C15_witness ==
    /\ Scored
    /\ last.score = 100
    /\ last.is_hot
    /\ Len(last.factors) >= 8

C17_fast_phone_agreed_is_hot ==
    (/\ Scored
     /\ ScoredReplies # <<>>
     /\ ScoredReplies[1].created_at - db.conversations[last.conv].created_at < 300
     /\ db.prospects[db.conversations[last.conv].prospect].phone # None
     /\ db.conversations[last.conv].outcome = "agreed_to_free_class") =>
        /\ last.is_hot
        /\ last.score >= 70

\* C17 witness: such a conversation with the weakest other signals (an
\* intent block that does not parse, one short message without keywords,
\* outside business hours) was scored.
C17_witness ==
    /\ Scored
    /\ Len(ScoredReplies) = 1
    /\ ScoredReplies[1].created_at - db.conversations[last.conv].created_at < 300
    /\ db.prospects[db.conversations[last.conv].prospect].phone # None
    /\ db.conversations[last.conv].outcome = "agreed_to_free_class"
    /\ last.score = 85
    /\ last.is_hot

\* C18: whenever the handling of a reply scored the conversation and found
\* the lead hot, on the closing path or on the normal-turn path, and went
\* through without an error, send_hot_lead_notification was called for it.
C18_hot_score_notifies ==
    (/\ last.op = "reply"
     /\ ~last.raised
     /\ last.path \in {"outcome", "turn"}
     /\ last.is_hot) => last.notify

\* C19: a normal turn that was generated (a provider key is set and the
\* provider answered) and whose output has no intent payload, or a malformed
\* one, is handled without an error: the prospect's message is logged, the
\* turn's draft is queued as the newest pending response and the
\* conversation's intent is not written.
C19_missing_intent_tolerated ==
    (/\ last.op = "reply"
     /\ last.path = "turn"
     /\ last.keys.grok \/ last.keys.openai
     /\ ~(last.intent_data.present /\ last.intent_data.valid)) =>
        /\ ~last.raised
        /\ db.messages[last.conv] # <<>>
        /\ Last(db.messages[last.conv]).role = "prospect"
        /\ db.pending # <<>>
        /\ Last(db.pending) = [conversation |-> last.conv, llm_content |-> "turn",
                               status |-> "pending", edited_content |-> None,
                               actioned_at |-> None]
        /\ db.conversations[last.conv].intent = None

\* conversations i and j of database d are of the same prospect and thread
SamePair(d, i, j) ==
    /\ d.conversations[i].prospect = d.conversations[j].prospect
    /\ d.conversations[i].thread_subject = d.conversations[j].thread_subject

\* C20: after every step no two conversations have the same prospect and
\* thread subject, and a lead notification handled for a pair that has a
\* conversation returns that conversation and creates none.
C20_one_conversation_per_pair ==
    [][/\ \A i, j \in Ids(db'.conversations) : SamePair(db', i, j) => i = j
       /\ (/\ PassItemStep
           /\ last'.op = "prospect"
           /\ ~last'.raised
           /\ \E i \in Ids(db.conversations) :
                 /\ db.conversations[i].prospect = db'.conversations[last'.conv].prospect
                 /\ db.conversations[i].thread_subject =
                        db'.conversations[last'.conv].thread_subject) =>
              /\ last'.conv \in Ids(db.conversations)
              /\ Len(db'.conversations) = Len(db.conversations)]_vars

\* C20 witness: a second notification for the same prospect and thread was
\* handled: two opening drafts are queued for the one conversation.
C20_witness ==
    /\ last.op = "prospect"
    /\ ~last.raised
    /\ Len(db.conversations) = 1
    /\ Cardinality({p \in Ids(db.pending) :
                       /\ db.pending[p].conversation = last.conv
                       /\ db.pending[p].llm_content = "opening"}) = 2

\* C21: when a reply brings its conversation's message count to twice
\* max_message_exchanges and the classifier does not end the conversation,
\* the reply is handled on the limit path, where no normal turn is requested:
\* unless the closing generation raises, the one draft queued is the
\* closing message and the outcome is reached_message_limit.
C21_limit_before_generation ==
    [][(/\ PassItemStep
        /\ last'.op = "reply"
        /\ last'.path \in {"outcome", "limit", "turn"}
        /\ ~(last'.should_end /\ last'.outcome # None)
        /\ Len(db.messages[last'.conv]) + 1 >= 2 * db.config.max_message_exchanges) =>
           /\ last'.path = "limit"
           /\ ~last'.raised =>
                 /\ db'.pending = Append(db.pending,
                        [conversation |-> last'.conv, llm_content |-> "closing",
                         status |-> "pending", edited_content |-> None,
                         actioned_at |-> None])
                 /\ db'.conversations[last'.conv].outcome = "reached_message_limit"]_vars

\* C21 witness: the classifier let the conversation continue on a reply that
\* reached the limit, and the closing message was queued in place of a turn.
C21_witness ==
    /\ last.op = "reply" /\ ~last.raised /\ last.path = "limit"
    /\ ~last.should_end
    /\ AtLimit(db, last.conv)
    /\ Last(db.pending).llm_content = "closing"
    /\ db.conversations[last.conv].outcome = "reached_message_limit"

\* C22: a call of detect_conversation_outcome for an existing conversation
\* calls no provider but OpenAI and calls it at most once, exactly once when
\* the OpenAI key is set; when that call raises the result is the default
\* (False, None) and nothing else was called.
C22_classifier_pinned_no_retry ==
    (last.op = "classify" /\ last.conv \in Ids(db.conversations)) =>
        /\ last.calls \in {<<>>, <<"openai">>}
        /\ last.keys.openai => last.calls = <<"openai">>
        /\ ~last.assess.ok => ~last.should_end /\ last.outcome = None /\ ~last.raised

\* C22 witness: with both keys set the OpenAI call raised; it was the only
\* call and the classifier answered with the default.
C22_witness ==
    /\ last.op = "classify"
    /\ last.conv \in Ids(db.conversations)
    /\ last.keys.grok /\ last.keys.openai
    /\ ~last.assess.ok
    /\ last.calls = <<"openai">>
    /\ ~last.should_end /\ last.outcome = None

\* C23: a closing generation for an existing conversation puts into its
\* request the template of the outcome when the outcome is
\* agreed_to_free_class or not_interested and the reached_message_limit
\* template for every other outcome, and the first name of the
\* conversation's prospect.
C23_closing_template_by_outcome ==
    (last.op = "generate_closing_message" /\ last.conv \in Ids(db.conversations)) =>
        /\ last.prompt = IF last.outcome \in {"agreed_to_free_class", "not_interested"}
                         THEN last.outcome
                         ELSE "reached_message_limit"
        /\ last.first_name =
               db.prospects[db.conversations[last.conv].prospect].first_name

\* C23 witness: a closing message was asked for an outcome that has no
\* template, for the prospect with the second first name.
C23_witness ==
    /\ last.op = "generate_closing_message"
    /\ last.conv \in Ids(db.conversations)
    /\ last.outcome = "follow_up_needed"
    /\ last.prompt = "reached_message_limit"
    /\ last.first_name = "Bea"
    /\ ~last.raised

\* C24: with neither provider key set, a turn or closing generation for an
\* existing conversation raises without having called any provider,
\* whatever the providers would have answered.
C24_no_key_fails_without_call ==
    (/\ last.op \in {"generate_response", "generate_closing_message"}
     /\ last.conv \in Ids(db.conversations)
     /\ ~last.keys.grok /\ ~last.keys.openai) =>
        /\ last.raised
        /\ last.calls = <<>>

\* C24 witness: a generation was asked with no key set while both
\* providers would have answered.
C24_witness ==
    /\ last.op \in {"generate_response", "generate_closing_message"}
    /\ last.conv \in Ids(db.conversations)
    /\ ~last.keys.grok /\ ~last.keys.openai
    /\ last.gen = <<TRUE, TRUE>>
    /\ last.raised
    /\ last.calls = <<>>

\* C25: generate_response, generate_closing_message,
\* detect_conversation_outcome and update_conversation_status called with a
\* conversation id that does not exist, approve_response and
\* reject_response called with a draft id that does not exist, and a reply
\* handled for a thread that has no conversation, give their caller an
\* error and leave the database as it was.
C25_missing_id_surfaced ==
    [][(\/ /\ last'.op \in {"generate_response", "generate_closing_message",
                             "classify", "update_conversation_status"}
           /\ last'.conv \notin Ids(db.conversations)
        \/ /\ last'.op \in {"approve_response", "reject_response"}
           /\ last'.pending \notin Ids(db.pending)
        \/ /\ last'.op = "reply"
           /\ last'.path = "not_found") =>
           /\ last'.raised
           /\ db' = db]_vars

\* C26: the summary a polling pass writes as its last line counts the
\* items processed successfully: the two counts in it add up to the number
\* of loop bodies that ended without raising, and a body that raised is not
\* among them
C26_summary_counts_successes ==
    last.op = "summary" =>
        last.summary[1] + last.summary[2] = poll.succeeded

\* the signal types with a keyword in one of the three newest prospect
\* messages of conversation c
RecentSignals(c) ==
    LET prospect == WithRoles(db.messages[c], {"prospect"})
        recent == {i \in 1..Len(prospect) : i > Len(prospect) - 3}
    IN  {t \in Range(SignalTypes) :
            \E i \in recent : buying_keywords[t] \cap prospect[i].content.keywords # {}}

\* how many times a factor text is among the factors
Times(text, factors) == Cardinality({i \in 1..Len(factors) : factors[i].text = text})

\* C27: a score reads the buying keywords of the three newest prospect
\* messages only: the factor of a signal type is among the factors exactly
\* once when one of these messages has a keyword of the type, however many
\* keywords and messages, and not at all otherwise, and the signals add 10
\* hundredths when there is one and nothing otherwise
C27_signals_recent_once ==
    last.op = "score" =>
        /\ \A t \in Range(SignalTypes) :
               Times(SignalFactor(t), last.factors) =
                   IF t \in RecentSignals(last.conv) THEN 1 ELSE 0
        /\ last.signal_points = IF RecentSignals(last.conv) = {} THEN 0 ELSE 10

\* four prospect messages, the oldest, outside the three read, the only one
\* with a keyword about prices, and keywords about scheduling in two of the
\* newer ones, two of them in one message
C27_witness ==
    /\ last.op = "score"
    /\ LET prospect == WithRoles(db.messages[last.conv], {"prospect"})
       IN  /\ Len(prospect) = 4
           /\ prospect[1].content.keywords = {"cost"}
           /\ prospect[2].content.keywords = {"when"}
           /\ prospect[3].content.keywords = {}
           /\ prospect[4].content.keywords = {"when", "book"}
    /\ Times(SignalFactor("schedule"), last.factors) = 1
    /\ Times(SignalFactor("price"), last.factors) = 0

\* C28: the messages of a conversation are an append-only log: a step of
\* the polling pass, a view, the sweep or the clock leaves the messages of
\* each conversation as they were, in content, role and order, or puts
\* exactly one new message after them.
C28_message_log_append_only ==
    [][\A c \in Ids(db.conversations) :
          /\ c \in Ids(db'.conversations)
          /\ LET old == db.messages[c]
                 new == db'.messages[c]
             IN  \/ new = old
                 \/ /\ Len(new) = Len(old) + 1
                    /\ SubSeq(new, 1, Len(old)) = old]_vars

\* C28 witness: a handled reply was committed with the prospect's message
\* after the opening that was sent.
C28_witness ==
    /\ last.op = "reply"
    /\ ~last.raised
    /\ Len(db.messages[last.conv]) = 2
    /\ db.messages[last.conv][1].role = "sent"
    /\ db.messages[last.conv][2].role = "prospect"

\* the highest version number of a prompt, 0 without versions
Highest(d, name) ==
    LET numbers == {d.versions[i].version : i \in versions_of(d, name)} \cup {0}
    IN  CHOOSE n \in numbers : \A m \in numbers : m <= n

\* C29: a call of create_and_activate_new_version that commits puts one
\* version after the existing ones, its number one more than the prompt's
\* highest (1 for the first), keeps every earlier version and the other
\* prompts' pointers, and makes the new version the prompt's active one;
\* after every step the version numbers of a prompt are unique and the
\* active version of a prompt with versions is its newest.
C29_new_version_appended_and_active ==
    [][/\ (last'.op = "create_and_activate_new_version" /\ ~last'.raised) =>
             /\ db'.versions = Append(db.versions,
                                      [prompt |-> last'.prompt, content |-> last'.content,
                                       version |-> Highest(db, last'.prompt) + 1])
             /\ db'.prompts = [db.prompts EXCEPT
                                  ![last'.prompt].active_version = Len(db'.versions)]
       /\ \A i, j \in Ids(db'.versions) :
             (/\ db'.versions[i].prompt = db'.versions[j].prompt
              /\ db'.versions[i].version = db'.versions[j].version) => i = j
       /\ \A name \in PromptNames :
             versions_of(db', name) # {} =>
                 /\ db'.prompts[name].active_version \in versions_of(db', name)
                 /\ \A i \in versions_of(db', name) :
                       i <= db'.prompts[name].active_version]_vars

\* C29 witness: a committed call made version 2 of a prompt, after another
\* prompt's version was created in between.
C29_witness ==
    /\ last.op = "create_and_activate_new_version"
    /\ ~last.raised
    /\ Len(db.versions) = 3
    /\ db.versions[1].prompt = last.prompt
    /\ db.versions[2].prompt # last.prompt
    /\ db.versions[3] = [prompt |-> last.prompt, content |-> "edited", version |-> 2]
    /\ db.prompts[last.prompt].active_version = 3

\* C30: the SystemConfig table has at most one row, of key 1, after every
\* call; load leaves an existing row as it is and returns it, and makes the
\* row with the defaults when there is none; save writes the fields of the
\* instance, whatever its key, to that one row; delete leaves the table as
\* it is.
C30_config_singleton ==
    [][/\ Cardinality(db'.rows) <= 1
       /\ \A r \in db'.rows : r.pk = 1
       /\ last'.op = "load" =>
             /\ db'.rows = IF db.rows = {} THEN {ConfigDefaults} ELSE db.rows
             /\ db'.rows = {poll'[last'.pending]}
       /\ last'.op = "save" =>
             db'.rows = {[poll[last'.pending] EXCEPT !.pk = 1]}
       /\ last'.op = "delete" => db'.rows = db.rows]_vars

\* C30 witness: an instance with other values than the row made by load was
\* saved over that row, while another caller holds the loaded defaults.
C30_witness ==
    /\ last.op = "save"
    /\ db.rows = {[pk |-> 1, cold_lead_threshold_days |-> 14]}
    /\ poll[last.pending] = [pk |-> 1, cold_lead_threshold_days |-> 14]
    /\ \E k \in Holders : poll[k] = ConfigDefaults /\ k # last.pending

\* C31: the context built for a conversation is the system prompt followed
\* by one entry per message of the transcript, in the transcript's order and
\* with its content, a prospect message as "user" and a generated or sent
\* message as "assistant"; no message is dropped or repeated.
C31_context_is_prompt_then_transcript ==
    last.op = "build_conversation_context" =>
        LET transcript == db.messages[last.conv]
        IN  /\ Len(last.context) = Len(transcript) + 1
            /\ last.context[1] = [role |-> "system", content |-> "SALES_SYSTEM_PROMPT"]
            /\ \A i \in 1..Len(transcript) :
                  /\ last.context[i + 1].content = transcript[i].content
                  /\ transcript[i].role = "prospect" =>
                         last.context[i + 1].role = "user"
                  /\ transcript[i].role \in {"llm_generated", "sent"} =>
                         last.context[i + 1].role = "assistant"

\* C31 witness: the context of a transcript with a sent opening, a prospect
\* message and a generated message.
C31_witness ==
    /\ last.op = "build_conversation_context"
    /\ Len(last.context) = 4
    /\ db.messages[last.conv][1] = [role |-> "sent", content |-> "opening"]
    /\ db.messages[last.conv][2] = [role |-> "prospect", content |-> "hi"]
    /\ db.messages[last.conv][3].role = "llm_generated"

\* C32: a draft leads to one transmitted message at most: an approve or
\* edit request for a draft that was approved, edited or rejected before
\* sends nothing and appends no message to the transcript (stated for a
\* rejected draft and for an approved or edited draft of a conversation with
\* a sent message).
C32_decided_draft_not_sent_again ==
    [][(/\ last'.op \in {"approve", "edit"}
        /\ \/ db.pending[last'.pending].status = "rejected"
           \/ /\ db.pending[last'.pending].status \in {"approved", "edited"}
              /\ \E i \in 1..Len(db.messages[last'.conv]) :
                    db.messages[last'.conv][i].role = "sent") =>
           /\ ~last'.sent
           /\ db'.messages = db.messages]_vars

\* C33: once a pass has recorded an outcome for a conversation, the
\* handling of a later reply to the conversation leaves the recorded outcome
\* as it is.
C33_recorded_outcome_kept ==
    [][(/\ last'.op = "reply"
        /\ last'.conv # 0
        /\ db.conversations[last'.conv].outcome # None) =>
           db'.conversations[last'.conv].outcome =
               db.conversations[last'.conv].outcome]_vars

\* C34: an approve or edit appends a 'sent' message, with the content handed
\* to the transport, exactly when the transport's send returned true; when
\* the send failed the transcripts and the conversations (their time of the
\* last message included) are as before; in both cases the draft is left
\* approved or edited.
C34_sent_logged_iff_sent ==
    [][last'.op \in {"approve", "edit"} =>
          /\ last'.sent =>
                db'.messages = [db.messages EXCEPT ![last'.conv] =
                                   Append(@, [role |-> "sent", content |-> last'.content])]
          /\ ~last'.sent =>
                /\ db'.messages = db.messages
                /\ db'.conversations = db.conversations
          /\ db'.pending[last'.pending].status =
                 (IF last'.op = "approve" THEN "approved" ELSE "edited")]_vars

\* C34 witness: a draft was approved or edited and the send failed; the
\* conversation has no message.
C34_witness ==
    /\ last.op \in {"approve", "edit"}
    /\ ~last.sent
    /\ db.pending[last.pending].status \in {"approved", "edited"}
    /\ db.messages[last.conv] = <<>>

\* C35: a pass handles replies only for the conversations that were active
\* when it listed them: the list is the active conversations, a handled
\* reply is one to a listed conversation, and handling it leaves the
\* messages and the drafts of every conversation not listed as they were.
C35_replies_for_listed_active_only ==
    [][/\ (poll.pc = "prospects" /\ poll'.pc = "replies") =>
             poll'.conv_data = {c \in Ids(db.conversations) :
                                   db.conversations[c].status = "active"}
       /\ last'.op = "reply" =>
             /\ last'.conv \in poll.conv_data
             /\ \A c \in Ids(db.conversations) \ poll.conv_data :
                   /\ db'.messages[c] = db.messages[c]
                   /\ PendingOf(db', c) = PendingOf(db, c)]_vars

\* C35 witness: a pass listed no conversation, the only one being cold or
\* complete, and goes through its replies phase with its messages as the
\* conversation's last operation left them.
C35_witness ==
    /\ poll.pc = "replies"
    /\ poll.conv_data = {}
    /\ \E c \in Ids(db.conversations) :
          /\ db.conversations[c].status \in {"cold", "complete"}
          /\ db.messages[c] # <<>>

\* C36: for a reply the classifier does not end the conversation on, a
\* normal turn is generated exactly while the messages of the conversation,
\* the prospect's and the sent ones with the reply just logged, number less
\* than twice max_message_exchanges; the drafts queued do not count.
C36_turn_only_below_limit ==
    [][(/\ last'.op = "reply"
        /\ last'.path \in {"turn", "limit"}) =>
           (last'.path = "turn" <=>
               Len(db.messages[last'.conv]) + 1 < 2 * db.config.max_message_exchanges)]_vars

\* C36 witness: a turn was generated and queued for a conversation whose
\* messages with its drafts number the limit, the messages alone less.
C36_witness ==
    /\ last.op = "reply"
    /\ last.path = "turn"
    /\ ~last.raised
    /\ Len(db.messages[last.conv]) < 2 * db.config.max_message_exchanges
    /\ Len(db.messages[last.conv])
         + Cardinality({p \in Ids(db.pending) : db.pending[p].conversation = last.conv})
           > 2 * db.config.max_message_exchanges

\* C37: a reject_response that finds the draft sets its status to rejected
\* and its actioned time and changes nothing else: the draft's texts, the
\* other drafts, the messages, and the conversations with their status,
\* outcome, intent and time of the last message are as before.
C37_reject_changes_draft_only ==
    [][(last'.op = "reject_response" /\ ~last'.raised) =>
          db' = [db EXCEPT !.pending[last'.pending].status = "rejected",
                           !.pending[last'.pending].actioned_at = "now"]]_vars

\* C37 witness: the opening that was approved and sent was rejected
\* afterwards; the conversation still has its sent message and is active.
C37_witness ==
    /\ last.op = "reject_response"
    /\ ~last.raised
    /\ db.pending[last.pending].status = "rejected"
    /\ LET c == db.pending[last.pending].conversation
       IN  /\ db.conversations[c].status = "active"
           /\ db.messages[c] = <<[role |-> "sent", content |-> "opening"]>>

\* C38: update_conversation_status never clears a stored outcome: on the
\* database a step leaves, a call without outcome leaves the outcome, a call
\* without status leaves the status, and a call changes nothing but the two
\* fields of its conversation; and the only step after which a recorded
\* outcome is null is the reopen of a cold or complete conversation by
\* create_conversation, for a new notification.
C38_outcome_cleared_by_reopen_only ==
    [][/\ \A c \in Ids(db'.conversations), status \in PostedStatuses,
             outcome \in PostedOutcomes :
             update_conversation_status(db', c, status, outcome).db =
                 [db' EXCEPT !.conversations[c].status =
                                 IF status = None THEN @ ELSE status,
                             !.conversations[c].outcome =
                                 IF outcome = None THEN @ ELSE outcome]
       /\ \A c \in Ids(db.conversations) :
             (/\ db.conversations[c].outcome # None
              /\ db'.conversations[c].outcome = None) =>
                 /\ last'.op = "prospect"
                 /\ last'.conv = c
                 /\ db.conversations[c].status \in {"cold", "complete"}]_vars

\* C38 witness: a conversation the limit's outcome was recorded for was
\* marked complete by a form without outcome, and has the outcome still.
C38_witness ==
    \E c \in Ids(db.conversations) :
       /\ db.conversations[c].status = "complete"
       /\ db.conversations[c].outcome = "reached_message_limit"

\* C39: one generation call makes two provider calls at most; the second is
\* made only after the first raised, never after a success; and the
\* provider name returned with a text is the provider whose call, the last
\* one made, gave the text.
C39_fallback_after_failure_only ==
    last.op \in {"generate_response", "generate_closing_message"} =>
        /\ Len(last.calls) <= 2
        /\ Len(last.calls) = 2 => ~last.gen[1]
        /\ ~last.raised =>
              /\ last.calls # <<>>
              /\ last.gen[Len(last.calls)]
              /\ last.provider = last.calls[Len(last.calls)]

\* C39 witness: the first call, to grok, raised and the fallback's text was
\* returned with the name openai.
C39_witness ==
    /\ last.op = "generate_response"
    /\ ~last.raised
    /\ last.gen = <<FALSE, TRUE>>
    /\ last.calls = <<"grok", "openai">>
    /\ last.provider = "openai"

====
